---- MODULE Spec2Model ----
(***************************************************************************)
(* A model of the fetch / extract / search-rank scripts of the repository: *)
(*   self_scrap_akarsh.py       requests + BeautifulSoup rank/BSR tracker  *)
(*   self_scrap.py              the earlier, unhardened rank/BSR tracker   *)
(*   daily_tracker.py           Selenium tracker (PDP metrics + rank)      *)
(*   tracker.py                 Selenium rank tracker                      *)
(*   scraper.py                 polite PDP fetch + listing parse           *)
(*   extract_keywords_akarsh.py fetch_with_backoff block checker ("backoff")*)
(*   check.py                   one fetch per item with a debug file       *)
(* One run of one script is one behaviour: Init picks the script (prog)    *)
(* and its input mapping; the web answers every request                    *)
(* nondeterministically.                                                   *)
(***************************************************************************)
EXTENDS Integers, Sequences, FiniteSets, TLC

VARIABLES
    prog,        \* which script runs
    cfg,         \* input mapping: sequence of [key, vals] entries
    entries,     \* self_scrap_akarsh.py: the entries load_keywords_yaml returned
    pc,          \* position of the script
    ei, vi,      \* indices of the outer / inner loop of the main program
    cur,         \* the item being fetched (scripts that visit a set of items)
    page,        \* page index of the running rank resolution
    abs_index,   \* running absolute-position counter of the resolution
    tries,       \* attempt index of the running fetch
    ret,         \* where the running fetch returns to
    html,        \* Option: the response whose text the last fetch returned
    rank,        \* Option: value returned by the last rank resolution
    metrics,     \* per-item metrics (daily_tracker asin_metrics, scraper results)
    rows,        \* report rows appended so far
    report,      \* Option: the report written to disk
    fetched,     \* page indices fetched by the running resolution, in order
    seen,        \* per processed page: the identifier list scanned (<<>>: failed)
    failedAt,    \* page indices of the running resolution whose fetch failed
    stop,        \* why the last rank resolution returned
    extracted,   \* responses whose body was handed to an extractor
    accepted,    \* responses a fetch handed back as usable content
    lastFetch,   \* summary of the last finished fetch
    raised,      \* the kind of exception that left the script, "none" so far
    challenged,  \* the unit ("item", "page") the script just gave up on because of a challenge
    doc,  \* the document or text handed to the extraction functions under study
    out,  \* the results of the extraction functions applied to doc so far
    artifact,  \* the debug file last written: length of the body and of what was saved
    detail,  \* detail-page fetches started so far, per item
    slept,  \* the sleep the fetch call in progress has just taken, if any
    paused,  \* a delay step was taken since the last request was issued (or none was issued yet)
    written,  \* name of the report file the run has written, "" so far
    attached   \* name of the file read for the attachment of the email sent, "" so far

vars == <<prog, cfg, entries, pc, ei, vi, cur, page, abs_index, tries, ret, html, rank,
          metrics, rows, report, fetched, seen, failedAt, stop,
          extracted, accepted, lastFetch, raised, challenged, doc, out, artifact, detail, slept, paused, written, attached>>

----------------------------------------------------------------------------
(* Bounds of the model *)

MaxPages == 2      \* page budget of a rank resolution (max_pages)
MaxTiles == 2      \* identifiers on one search page

(* Program constants *)

max_retries == 3   \* get_html(max_retries=3)
MAX_RETRIES == 3   \* extract_keywords_akarsh.py
post_max_retries == 2   \* post_json(max_retries=2)
SAVE_HTML_LIMIT == 200000   \* extract_keywords_akarsh.py
BACKOFF_BASE == 2   \* extract_keywords_akarsh.py: BACKOFF_BASE = 2.0 seconds

----------------------------------------------------------------------------
(* Values *)

None == <<>>
Some(x) == <<x>>
IsSome(o) == o /= <<>>
Val(o) == o[1]

Asins == {"B01", "B02"}

RECURSIVE SeqsUpTo(_, _)
SeqsUpTo(S, n) ==
    IF n = 0 THEN {<<>>}
    ELSE LET shorter == SeqsUpTo(S, n - 1)
         IN  shorter \cup {Append(s, x) : s \in {t \in shorter : Len(t) = n - 1}, x \in S}

TileLists == SeqsUpTo(Asins, MaxTiles)

Range(s) == {s[i] : i \in 1..Len(s)}

RECURSIVE SumSeq(_)
SumSeq(s) == IF s = <<>> THEN 0 ELSE s[1] + SumSeq(Tail(s))

\* 1-based index of the first occurrence of x in s, 0 when absent
FirstIndex(s, x) ==
    IF x \in Range(s) THEN CHOOSE i \in 1..Len(s) : s[i] = x /\ \A j \in 1..(i-1) : s[j] /= x
    ELSE 0

----------------------------------------------------------------------------
(* The web.  A body is described by the substrings it contains (markers,   *)
(* lower-cased) and by the elements the selectors of the scripts find.     *)

ChallengeMarkers == {"validatecaptcha", "captcha", "amazon",
                     "enter the characters you see below",
                     "api-services-support@amazon.com", "robot check"}

\* layout of a search page: which markup carries the result identifiers
Layouts == {"component", "slot", "json", "attr"}

SearchBody(l, ids, nx) ==
    [kind |-> "search", markers |-> {"amazon"}, layout |-> l, ids |-> ids,
     next |-> nx, bsr |-> None]

\* a challenge page: no result markup at all
ChallengeBody ==
    [kind |-> "challenge", markers |-> ChallengeMarkers, layout |-> "none",
     ids |-> <<>>, next |-> "absent", bsr |-> None]

\* a page that shows the robot-check signs inside the results frame
RobotSlotBody ==
    [kind |-> "challenge", markers |-> ChallengeMarkers, layout |-> "slot",
     ids |-> <<>>, next |-> "absent", bsr |-> None]

PdpBody(b) ==
    [kind |-> "pdp", markers |-> {"amazon"}, layout |-> "none", ids |-> <<>>,
     next |-> "absent", bsr |-> b]

HomeBody ==
    [kind |-> "home", markers |-> {"amazon"}, layout |-> "none", ids |-> <<>>,
     next |-> "absent", bsr |-> None]

Exc == [exc |-> TRUE]

\* the connection is open and the server never answers
Hang == [hang |-> TRUE]

\* requests' timeout= argument: a request that never answers raises Timeout
timed_out(o) == IF o = Hang THEN Exc ELSE o

\* the outcomes of a request made with an explicit timeout
Timed(S) == {timed_out(o) : o \in S \cup {Hang}}
Resp(s, b) == [status |-> s, body |-> b]
IsExc(o) == "exc" \in DOMAIN o

----------------------------------------------------------------------------
(* Pure functions of the scripts *)

\* self_scrap_akarsh.py is_captcha: substring tests on the lower-cased body
is_captcha(body) ==
    \/ "validatecaptcha" \in body.markers
    \/ "enter the characters you see below" \in body.markers
    \/ "api-services-support@amazon.com" \in body.markers
    \/ ("captcha" \in body.markers /\ "amazon" \in body.markers)

\* daily_tracker.py hit_robot_check: url / title / captcha form of the loaded page
hit_robot_check(body) ==
    \/ "validatecaptcha" \in body.markers
    \/ "robot check" \in body.markers

\* the page has a div.s-main-slot
has_main_slot(body) == body.layout \in {"component", "slot"}

\* div[data-component-type='s-search-result'][data-asin]
sel_component(body) == IF body.layout = "component" THEN body.ids ELSE <<>>

\* div.s-main-slot div.s-search-result[data-asin]
sel_slot(body) == IF body.layout \in {"component", "slot"} THEN body.ids ELSE <<>>

\* every element that carries a data-asin attribute
sel_data_asin(body) == IF body.layout \in {"component", "slot", "attr"} THEN body.ids ELSE <<>>

\* occurrences of "asin": "<id>" in the markup, in document order
re_json_asin(body) ==
    IF body.layout = "json" THEN body.ids
    ELSE IF "json" \in DOMAIN body THEN body.json
    ELSE <<>>

\* occurrences of data-asin="<id>" in the markup, in document order
re_data_asin(body) == IF body.layout \in {"component", "slot", "attr"} THEN body.ids ELSE <<>>

\* a variant of DedupFirst that keeps every occurrence
KeepEveryOccurrence(s) == s

\* seen/out loop of the regex tiers: first occurrences, in order
RECURSIVE DedupFirst(_)
DedupFirst(s) ==
    IF s = <<>> THEN <<>>
    ELSE LET front == DedupFirst(SubSeq(s, 1, Len(s) - 1))
             x == s[Len(s)]
         IN  IF x \in Range(front) THEN front ELSE Append(front, x)

parse_search_asins_html(body) ==
    IF sel_component(body) /= <<>> THEN sel_component(body)
    ELSE IF sel_slot(body) /= <<>> THEN sel_slot(body)
    ELSE DedupFirst(re_json_asin(body))

parse_search_asins_regex(body) == DedupFirst(re_data_asin(body))

\* get_keyword_rank, lines 234-236: tiles, with the regex fallback
akarsh_tiles(body) ==
    IF parse_search_asins_html(body) /= <<>> THEN parse_search_asins_html(body)
    ELSE parse_search_asins_regex(body)

\* where the "Best Sellers Rank" phrase sits in a product page
BsrPlaces == {"li", "tr", "text", "raw", "none"}

parse_bsr_from_soup(body) ==
    IF body.bsr = Some("li") THEN Some("li: Best Sellers Rank #1")
    ELSE IF body.bsr = Some("tr") THEN Some("tr: Best Sellers Rank #1")
    ELSE IF body.bsr = Some("text") THEN Some("node: Best Sellers Rank #1")
    ELSE None

----------------------------------------------------------------------------
(* What the web may answer *)

ErrorBody ==
    [kind |-> "error", markers |-> {}, layout |-> "none", ids |-> <<>>,
     next |-> "absent", bsr |-> None]

SearchBodies == {SearchBody(l, ids, "enabled") : l \in Layouts, ids \in TileLists}

PdpBodies == {PdpBody(Some(b)) : b \in BsrPlaces}

FailureResponses ==
    {Resp(200, ChallengeBody), Resp(503, ChallengeBody), Resp(404, ErrorBody),
     Resp(503, ErrorBody)}

SearchOutcomes == {Exc} \cup FailureResponses \cup {Resp(200, b) : b \in SearchBodies}
PdpOutcomes == {Exc} \cup FailureResponses \cup {Resp(200, b) : b \in PdpBodies}
HomeOutcomes == {Exc} \cup FailureResponses \cup {Resp(200, HomeBody)}

\* lengths of a response body, in characters
BodySizes == {1500, 150000, 250000}

\* summary of a response kept in the history variables
Seen(r) == [status |-> r.status, challenge |-> is_captcha(r.body)]

----------------------------------------------------------------------------
(* extract_keywords.py: keyword phrases from product text.  A text is a    *)
(* sequence of characters, each a one-character string; RSQUO stands for a *)
(* typographic quote (U+2018, U+2019, U+201C, U+201D).                     *)

RSQUO == "rsquo"

LowerLetters ==
    <<"a", "b", "c", "d", "e", "f", "g", "h", "i", "j", "k", "l", "m",
      "n", "o", "p", "q", "r", "s", "t", "u", "v", "w", "x", "y", "z">>
UpperLetters ==
    <<"A", "B", "C", "D", "E", "F", "G", "H", "I", "J", "K", "L", "M",
      "N", "O", "P", "Q", "R", "S", "T", "U", "V", "W", "X", "Y", "Z">>
Alpha == Range(LowerLetters)
Digits == {"0", "1", "2", "3", "4", "5", "6", "7", "8", "9"}

\* \s
Whitespace == {" ", "\t"}

\* [a-z0-9\-]
WordChars == Alpha \cup Digits \cup {"-"}

\* str.lower, one character
lower_char(c) ==
    IF \E i \in 1..26 : UpperLetters[i] = c
    THEN LowerLetters[CHOOSE i \in 1..26 : UpperLetters[i] = c]
    ELSE c

\* str.lower
str_lower(s) == [i \in 1..Len(s) |-> lower_char(s[i])]

RECURSIVE lstrip(_)
lstrip(s) ==
    IF s /= <<>> /\ s[1] \in Whitespace THEN lstrip(Tail(s)) ELSE s

RECURSIVE rstrip(_)
rstrip(s) ==
    IF s /= <<>> /\ s[Len(s)] \in Whitespace
    THEN rstrip(SubSeq(s, 1, Len(s) - 1)) ELSE s

\* str.strip
str_strip(s) == rstrip(lstrip(s))

\* re.sub(r"[S]+", rep, s) when inside, re.sub(r"[^S]+", rep, s) when not:
\* every maximal run of matching characters becomes rep
RECURSIVE sub_runs(_, _, _, _)
sub_runs(s, S, inside, rep) ==
    IF s = <<>> THEN <<>>
    ELSE LET rest == sub_runs(Tail(s), S, inside, rep)
         IN  IF (s[1] \in S) /= inside THEN <<s[1]>> \o rest
             ELSE IF Len(s) > 1 /\ ((s[2] \in S) = inside) THEN rest
             ELSE <<rep>> \o rest

\* line 75: every typographic quote becomes an apostrophe
sub_quotes(s) == [i \in 1..Len(s) |-> IF s[i] = RSQUO THEN "'" ELSE s[i]]

\* a variant of normalize_token without the final whitespace collapse and strip
normalize_token_untrimmed(tok) ==
    sub_runs(sub_quotes(str_lower(str_strip(tok))), WordChars \cup {" "}, FALSE, " ")

\* normalize_token, lines 73-78
normalize_token(tok) ==
    LET t1 == str_lower(str_strip(tok))
        t2 == sub_quotes(t1)
        t3 == sub_runs(t2, WordChars \cup {" "}, FALSE, " ")
    IN  str_strip(sub_runs(t3, Whitespace, TRUE, " "))

STOPWORDS ==
    {<<"t", "h", "e">>, <<"a", "n", "d">>, <<"a">>, <<"a", "n">>,
     <<"o", "f">>, <<"f", "o", "r">>, <<"w", "i", "t", "h">>, <<"t", "o">>,
     <<"i", "n">>, <<"o", "n">>, <<"b", "y">>, <<"f", "r", "o", "m">>,
     <<"t", "h", "i", "s">>, <<"t", "h", "a", "t">>, <<"i", "t">>,
     <<"i", "t", "s">>, <<"i", "t", "e", "m">>, <<"i", "t", "e", "m", "s">>,
     <<"n", "u", "m", "b", "e", "r">>, <<"n", "e", "t">>,
     <<"q", "u", "a", "n", "t", "i", "t", "y">>, <<"p", "a", "c", "k">>,
     <<"p", "a", "c", "k", "o", "f">>, <<"p", "a", "c", "k", "-", "o", "f">>,
     <<"s", "e", "e">>, <<"m", "o", "r", "e">>, <<"c", "l", "i", "c", "k">>,
     <<"h", "e", "r", "e">>, <<"a", "m", "a", "z", "o", "n">>,
     <<"a", "m", "a", "z", "o", "n", "i", "n">>,
     <<"s", "e", "l", "l", "e", "r">>,
     <<"m", "a", "n", "u", "f", "a", "c", "t", "u", "r", "e", "r">>,
     <<"b", "r", "a", "n", "d">>,
     <<"b", "r", "a", "n", "d", "n", "a", "m", "e">>}

NOISE_TOKENS ==
    {<<"u", "p", "c">>, <<"e", "a", "n">>, <<"g", "t", "i", "n">>,
     <<"m", "p", "n">>, <<"i", "s", "b", "n">>, <<"s", "k", "u">>,
     <<"w", "e", "i", "g", "h", "t">>, <<"g", "r", "a", "m">>,
     <<"g", "r", "a", "m", "s">>, <<"m", "l">>, <<"l", "t", "r">>,
     <<"l", "i", "t", "r", "e">>,
     <<"m", "i", "l", "l", "i", "l", "i", "t", "r", "e">>,
     <<"m", "i", "l", "l", "i", "l", "i", "t", "e", "r">>, <<"c", "m">>,
     <<"m", "m">>, <<"i", "n", "c", "h">>, <<"i", "n", "c", "h", "e", "s">>,
     <<"d", "i", "m", "e", "n", "s", "i", "o", "n", "s">>,
     <<"s", "i", "z", "e">>, <<"l", "e", "n", "g", "t", "h">>,
     <<"w", "i", "d", "t", "h">>, <<"h", "e", "i", "g", "h", "t">>}

\* "".join of the characters: sequences of characters concatenated with sep between
RECURSIVE str_join(_, _)
str_join(parts, sep) ==
    IF parts = <<>> THEN <<>>
    ELSE IF Len(parts) = 1 THEN parts[1]
    ELSE parts[1] \o sep \o str_join(Tail(parts), sep)

\* sub in s (the Python operator "in" on strings)
str_contains(s, sub) ==
    \E i \in 1..(Len(s) - Len(sub) + 1) : SubSeq(s, i, i + Len(sub) - 1) = sub

all_digits(s) == s /= <<>> /\ \A i \in 1..Len(s) : s[i] \in Digits

\* \d+(\.\d+)?
decimal_number(s) ==
    \/ all_digits(s)
    \/ \E i \in 2..(Len(s) - 1) :
          s[i] = "." /\ all_digits(SubSeq(s, 1, i - 1)) /\ all_digits(SubSeq(s, i + 1, Len(s)))

\* LONG_DIGIT_RE, line 60
LONG_DIGIT_RE(tok) == Len(tok) >= 5 /\ all_digits(tok)

\* DIMENSION_RE, line 61: number x number, optionally x number
DIMENSION_RE(tok) ==
    \/ \E i \in 2..(Len(tok) - 1) :
          /\ lower_char(tok[i]) = "x"
          /\ decimal_number(SubSeq(tok, 1, i - 1))
          /\ decimal_number(SubSeq(tok, i + 1, Len(tok)))
    \/ \E i \in 2..(Len(tok) - 1), j \in 4..(Len(tok) - 1) :
          /\ i + 1 < j /\ lower_char(tok[i]) = "x" /\ lower_char(tok[j]) = "x"
          /\ decimal_number(SubSeq(tok, 1, i - 1))
          /\ decimal_number(SubSeq(tok, i + 1, j - 1))
          /\ decimal_number(SubSeq(tok, j + 1, Len(tok)))

\* a variant of is_noise_token that lets stopwords through
is_noise_token_but_stopwords(tok) ==
    \/ tok = <<>>
    \/ tok \in NOISE_TOKENS
    \/ LONG_DIGIT_RE(tok)
    \/ DIMENSION_RE(tok)
    \/ Len(tok) <= 1 /\ tok[1] \notin Alpha

\* is_noise_token, lines 80-89
is_noise_token(tok) ==
    \/ tok = <<>>
    \/ tok \in STOPWORDS
    \/ tok \in NOISE_TOKENS
    \/ LONG_DIGIT_RE(tok)
    \/ DIMENSION_RE(tok)
    \/ Len(tok) <= 1 /\ tok[1] \notin Alpha

\* \w of the regular expressions, on lowercased text
RegexWordChars == Alpha \cup Digits \cup {"_"}

\* \b before position i of s
word_boundary(s, i) ==
    ((i > 1 /\ i - 1 <= Len(s)) /\ s[i - 1] \in RegexWordChars)
        /= (i <= Len(s) /\ s[i] \in RegexWordChars)

starts_at(s, i, w) == i + Len(w) - 1 <= Len(s) /\ SubSeq(s, i, i + Len(w) - 1) = w

\* the number of whitespace characters of s from position i on
RECURSIVE spaces_from(_, _)
spaces_from(s, i) ==
    IF i <= Len(s) /\ s[i] \in Whitespace THEN 1 + spaces_from(s, i + 1) ELSE 0

\* \bin\b\s*w\b matched at position i: the length of the match, 0 without match
in_template(s, i, w) ==
    LET k == spaces_from(s, i + 2)
    IN  IF /\ word_boundary(s, i) /\ starts_at(s, i, <<"i", "n">>)
           /\ word_boundary(s, i + 2)
           /\ starts_at(s, i + 2 + k, w) /\ word_boundary(s, i + 2 + k + Len(w))
        THEN 2 + k + Len(w) ELSE 0

\* line 97: \bamazon\b|\bin\b\s*car\b|\bin\b\s*india\b matched at position i
template_at(s, i) ==
    LET amazon == <<"a", "m", "a", "z", "o", "n">>
    IN  IF word_boundary(s, i) /\ starts_at(s, i, amazon) /\ word_boundary(s, i + 6)
        THEN 6
        ELSE IF in_template(s, i, <<"c", "a", "r">>) > 0
        THEN in_template(s, i, <<"c", "a", "r">>)
        ELSE in_template(s, i, <<"i", "n", "d", "i", "a">>)

\* line 97: re.sub of the templates by " ", from position i on
RECURSIVE sub_templates(_, _)
sub_templates(s, i) ==
    IF i > Len(s) THEN <<>>
    ELSE IF template_at(s, i) > 0
    THEN <<" ">> \o sub_templates(s, i + template_at(s, i))
    ELSE <<s[i]>> \o sub_templates(s, i + 1)

\* line 99: re.findall(r"[a-z0-9\-]+", text) from position i on, word the word begun
RECURSIVE findall_words(_, _, _)
findall_words(s, i, word) ==
    LET found == IF word = <<>> THEN <<>> ELSE <<word>>
    IN  IF i > Len(s) THEN found
        ELSE IF s[i] \in WordChars THEN findall_words(s, i + 1, Append(word, s[i]))
        ELSE found \o findall_words(s, i + 1, <<>>)

\* a variant of the line 119 test that accepts any phrase
any_phrase(phrase) == TRUE

\* line 119: re.search(r"[a-z]", phrase)
has_alpha(phrase) == \E i \in 1..Len(phrase) : phrase[i] \in Alpha

\* a variant of the line 116 test that remembers nothing
never_seen(phrase, seen_set) == FALSE

\* line 116: phrase in seen
already_seen(phrase, seen_set) == phrase \in seen_set

\* a variant of the line 122 test that stops one phrase late
cap_exceeded(candidates, max_phrases) == Len(candidates) > max_phrases

\* line 122: len(candidates) >= max_phrases
cap_reached(candidates, max_phrases) == Len(candidates) >= max_phrases

\* lines 105-123: the loops over n in (3, 2, 1) and i, from (n, i) on
\* a variant of next_gram that takes the single tokens before the pairs
next_gram_pairs_last(n) == IF n = 3 THEN 1 ELSE IF n = 1 THEN 2 ELSE 0

\* line 105: for n in (3, 2, 1), the n after n (0 when the loop is over)
next_gram(n) == n - 1

RECURSIVE ngrams(_, _, _, _, _)
ngrams(words, n, i, candidates, max_phrases) ==
    IF n = 0 THEN candidates
    ELSE IF i > Len(words) - n + 1
         THEN ngrams(words, next_gram(n), 1, candidates, max_phrases)
    ELSE LET toks == [k \in 1..n |-> normalize_token(words[i + k - 1])]
             swcount == Cardinality({k \in 1..n : toks[k] \in STOPWORDS})
             phrase == str_join(toks, <<" ">>)
         IN  IF \/ \E k \in 1..n : is_noise_token(toks[k])
                \/ swcount >= n
                \/ already_seen(phrase, Range(candidates))
                \/ Len(phrase) < 3
                \/ ~has_alpha(phrase)
             THEN ngrams(words, n, i + 1, candidates, max_phrases)
             ELSE IF cap_reached(Append(candidates, phrase), max_phrases)
             THEN Append(candidates, phrase)
             ELSE ngrams(words, n, i + 1, Append(candidates, phrase), max_phrases)

\* line 99: the token list of a text
text_words(text) == findall_words(sub_templates(str_lower(text), 1), 1, <<>>)

\* extract_phrases_from_text, lines 92-124
extract_phrases_from_text(text, max_phrases) ==
    IF text = <<>> THEN <<>>
    ELSE IF text_words(text) = <<>> THEN <<>>
    ELSE ngrams(text_words(text), 3, 1, <<>>, max_phrases)

\* line 190: the remnants the final cleaning drops
REMNANTS ==
    {<<"p", "a", "c", "k", " ", "o", "f">>, <<"p", "a", "c", "k", "o", "f">>,
     <<"s", "e", "e", " ", "m", "o", "r", "e">>,
     <<"i", "t", "e", "m", " ", "w", "e", "i", "g", "h", "t">>,
     <<"n", "u", "m", "b", "e", "r", " ", "o", "f">>}

MAX_KWS_PER_ASIN == 40

\* a variant of collected_phrases that takes the title after the other sources
collected_phrases_title_last(soup) ==
    extract_phrases_from_text(soup.ld_keywords, 10)
    \o extract_phrases_from_text(soup.ld_description, 10)
    \o (IF soup.bullets /= <<>>
        THEN extract_phrases_from_text(str_join(soup.bullets, <<" ">>), 30) ELSE <<>>)
    \o (IF soup.desc_texts /= <<>>
        THEN extract_phrases_from_text(str_join(soup.desc_texts, <<" ">>), 40) ELSE <<>>)
    \o extract_phrases_from_text(soup.title, 15)

\* lines 131-183: the phrases of the title, the JSON-LD keywords and description,
\* the feature bullets and the description texts, in this order
collected_phrases(soup) ==
    extract_phrases_from_text(soup.title, 15)
    \o extract_phrases_from_text(soup.ld_keywords, 10)
    \o extract_phrases_from_text(soup.ld_description, 10)
    \o (IF soup.bullets /= <<>>
        THEN extract_phrases_from_text(str_join(soup.bullets, <<" ">>), 30) ELSE <<>>)
    \o (IF soup.desc_texts /= <<>>
        THEN extract_phrases_from_text(str_join(soup.desc_texts, <<" ">>), 40) ELSE <<>>)

\* a variant of final_clean that only removes duplicates
RECURSIVE final_clean_duplicates_only(_, _, _, _)
final_clean_duplicates_only(phrases, i, final, cap) ==
    IF i > Len(phrases) THEN final
    ELSE LET p == phrases[i]
         IN  IF p \in Range(final)
             THEN final_clean_duplicates_only(phrases, i + 1, final, cap)
             ELSE IF Len(final) + 1 >= cap THEN Append(final, p)
             ELSE final_clean_duplicates_only(phrases, i + 1, Append(final, p), cap)

\* lines 186-201: final cleaning of out from position i on, keeping at most cap
RECURSIVE final_clean(_, _, _, _)
final_clean(phrases, i, final, cap) ==
    IF i > Len(phrases) THEN final
    ELSE LET p == phrases[i]
         IN  IF \/ \E tok \in REMNANTS : str_contains(p, tok)
                \/ str_contains(p, <<"a", "m", "a", "z", "o", "n">>)
                \/ Len(p) < 3
                \/ p \in Range(final)
             THEN final_clean(phrases, i + 1, final, cap)
             ELSE IF Len(final) + 1 >= cap THEN Append(final, p)
             ELSE final_clean(phrases, i + 1, Append(final, p), cap)

\* fetch_clean_keywords_from_html, lines 127-202
fetch_clean_keywords_from_html(soup) ==
    final_clean(collected_phrases(soup), 1, <<>>, MAX_KWS_PER_ASIN)

----------------------------------------------------------------------------
(* Texts given to the phrase functions *)

MaxTokenLen == 4
MaxWords == 4
MaxCap == 3

\* the characters of the token strings given to normalize_token
TokenChars == {"a", "B", " ", "\t", RSQUO}

\* the words the source texts are made of: "Red", "cd,", "of", "123"
TextWords == {<<"R", "e", "d">>, <<"c", "d", ",">>, <<"o", "f">>, <<"1", "2", "3">>}

\* "Tea-Bag 250 ml x 2 of 3x4 1234567"
NoiseExample ==
    <<"T", "e", "a", "-", "B", "a", "g", " ", "2", "5", "0", " ", "m", "l", " ",
      "x", " ", "2", " ", "o", "f", " ", "3", "x", "4", " ", "1", "2", "3", "4",
      "5", "6", "7">>

\* "Wireless Mouse, Wireless Mouse for Laptop"
DedupExample ==
    <<"W", "i", "r", "e", "l", "e", "s", "s", " ", "M", "o", "u", "s", "e",
      ",", " ", "W", "i", "r", "e", "l", "e", "s", "s", " ", "M", "o", "u",
      "s", "e", " ", "f", "o", "r", " ", "L", "a", "p", "t", "o", "p">>

\* "Amazon-Basics in  car Charger in India 3x4 12345 USB-C"
TemplateExample ==
    <<"A", "m", "a", "z", "o", "n", "-", "B", "a", "s", "i", "c", "s", " ",
      "i", "n", " ", " ", "c", "a", "r", " ", "C", "h", "a", "r", "g", "e",
      "r", " ", "i", "n", " ", "I", "n", "d", "i", "a", " ", "3", "x", "4",
      " ", "1", "2", "3", "4", "5", " ", "U", "S", "B", "-", "C">>

\* "Red Blue Green Gold Pink Teal Navy"
LongTitle ==
    <<"R", "e", "d", " ", "B", "l", "u", "e", " ", "G", "r", "e", "e", "n",
      " ", "G", "o", "l", "d", " ", "P", "i", "n", "k", " ", "T", "e", "a",
      "l", " ", "N", "a", "v", "y">>

\* "Soft warm wool scarf long"
LongBullet1 ==
    <<"S", "o", "f", "t", " ", "w", "a", "r", "m", " ", "w", "o", "o", "l",
      " ", "s", "c", "a", "r", "f", " ", "l", "o", "n", "g">>

\* "Fits men women kids teens"
LongBullet2 ==
    <<"F", "i", "t", "s", " ", "m", "e", "n", " ", "w", "o", "m", "e", "n",
      " ", "k", "i", "d", "s", " ", "t", "e", "e", "n", "s">>

\* "Easy wash dry fold"
LongBullet3 ==
    <<"E", "a", "s", "y", " ", "w", "a", "s", "h", " ", "d", "r", "y", " ",
      "f", "o", "l", "d">>

\* "Gift box card ribbon"
LongDescription ==
    <<"G", "i", "f", "t", " ", "b", "o", "x", " ", "c", "a", "r", "d", " ",
      "r", "i", "b", "b", "o", "n">>

\* "Red pen"
RedPen ==
    <<"R", "e", "d", " ", "p", "e", "n">>

\* "Blue Pen red"
BluePenRed ==
    <<"B", "l", "u", "e", " ", "P", "e", "n", " ", "r", "e", "d">>

\* "Jetpackoffer Red Amazonia"
Jetpackoffer ==
    <<"J", "e", "t", "p", "a", "c", "k", "o", "f", "f", "e", "r", " ", "R",
      "e", "d", " ", "A", "m", "a", "z", "o", "n", "i", "a">>

\* "Big jetpack offer"
BigJetpackOffer ==
    <<"B", "i", "g", " ", "j", "e", "t", "p", "a", "c", "k", " ", "o", "f",
      "f", "e", "r">>

TokenDoc(t) == [kind |-> "token", text |-> t]
TextDoc(t, m) == [kind |-> "text", text |-> t, max_phrases |-> m]
ItemDoc(t, k, d, b, x) ==
    [kind |-> "item", title |-> t, ld_keywords |-> k, ld_description |-> d,
     bullets |-> b, desc_texts |-> x]

SmallTexts == {<<>>, RedPen, BluePenRed}

PhraseDocuments ==
    {TokenDoc(t) : t \in SeqsUpTo(TokenChars, MaxTokenLen)}
    \cup {TextDoc(str_join(ws, <<" ">>), m) :
            ws \in SeqsUpTo(TextWords, MaxWords), m \in 1..MaxCap}
    \cup {TextDoc(DedupExample, 40), TextDoc(TemplateExample, 40),
          TextDoc(NoiseExample, 40), TextDoc(LongTitle, 15)}
    \cup {ItemDoc(t, k, <<>>, IF b = <<>> THEN <<>> ELSE <<b>>,
                  IF x = <<>> THEN <<>> ELSE <<x, b>>) :
            t \in SmallTexts, k \in SmallTexts, b \in SmallTexts, x \in SmallTexts}
    \cup {ItemDoc(LongTitle, <<>>, <<>>, <<LongBullet1, LongBullet2, LongBullet3>>,
                  <<LongDescription>>),
          ItemDoc(DedupExample, <<>>, <<>>, <<DedupExample>>, <<>>),
          ItemDoc(Jetpackoffer, RedPen, BluePenRed, <<BigJetpackOffer>>, <<>>)}

----------------------------------------------------------------------------
(* Product pages given to the field extractors *)

\* what a locator finds: no element, an element with empty text, one with text
SelStates == {"absent", "empty", "text"}

\* the text of the element the i-th locator of a field finds
StrategyText(i) == <<"s1", "s2", "s3", "s4", "s5">>[i]

\* an exception raised by a locator
Raised == <<"raised">>

Markups(n) == [1..n -> SelStates]

\* nothing there, or text under the first locator only
PlainMarkups(n) ==
    {[i \in 1..n |-> "absent"], [i \in 1..n |-> IF i = 1 THEN "text" ELSE "absent"]}

FieldDoc(p, r, c, b) ==
    [kind |-> "pdp", markers |-> {"amazon"}, layout |-> "none", ids |-> <<>>,
     next |-> "absent", bsr |-> Some(b), price |-> p, rating |-> r, reviews |-> c]

\* pages in which one field's markup varies freely
Documents ==
    {FieldDoc(p, r, c, b) : p \in Markups(5), r \in PlainMarkups(2),
                             c \in PlainMarkups(2), b \in {"li", "none"}}
    \cup {FieldDoc(p, r, c, b) : p \in PlainMarkups(5), r \in Markups(2),
                                  c \in PlainMarkups(2), b \in {"li", "none"}}
    \cup {FieldDoc(p, r, c, b) : p \in PlainMarkups(5), r \in PlainMarkups(2),
                                  c \in Markups(2), b \in {"li", "none"}}
    \cup {FieldDoc(p, r, c, b) : p \in PlainMarkups(5), r \in PlainMarkups(2),
                                  c \in PlainMarkups(2), b \in BsrPlaces}

NoDoc == [kind |-> "none"]
NoOut == [none |-> TRUE]

\* raw page texts given to the challenge predicates
RawPhrases == {"captcha", "CAPTCHA", "Amazon", "validateCaptcha", "Robot Check"}
RawTexts == {[kind |-> "text", phrases |-> S] : S \in SUBSET RawPhrases}

\* a search page that also embeds identifiers in JSON
MixedBody(l, ids, js) ==
    [kind |-> "search", markers |-> {"amazon"}, layout |-> l, ids |-> ids,
     next |-> "enabled", bsr |-> None, json |-> js]

\* search pages given to the identifier parsers
MixedPages ==
    {[kind |-> "page", body |-> MixedBody(l, ids, js)] :
        l \in {"component", "slot", "attr", "none"}, ids \in TileLists, js \in TileLists}

PageDocuments == RawTexts \cup MixedPages

\* the inputs of the function-by-function programs
DocsOf(p) ==
    IF p = "fields" THEN Documents
    ELSE IF p = "phrases" THEN PhraseDocuments
    ELSE IF p = "pages" THEN PageDocuments
    ELSE {NoDoc}

----------------------------------------------------------------------------
(* Input mappings.  An entry is [key, vals]: an item with its query terms  *)
(* (asins_keywords.yaml) or a query term with its items (keywords_asins).  *)

Entry(k, v) == [key |-> k, vals |-> v]

AsinCfgs ==
    { <<Entry("B01", <<"k1">>)>>,
      <<Entry("B01", <<"k1", "k2">>)>>,
      <<Entry("B01", <<"k1">>), Entry("B02", <<"k1">>)>> }

\* an entry whose keywords are a scalar, not a list
Scalar(k, v) == [key |-> k, scalar |-> v]

\* asins_keywords.yaml files, the malformed ones included
AkarshYamls ==
    { <<Entry("B01", <<"k1">>)>>,
      <<Entry("B01", <<"k1", "k2">>)>>,
      <<Entry("", <<"k1">>), Entry("B01", <<"k1">>)>>,
      <<Scalar("B02", "k1"), Entry("B01", <<"k2">>)>>,
      <<Entry("B01", <<" ", "k2 ">>)>>,
      <<Entry("B02", <<>>), Entry("B01", <<"k1">>)>> }

KeywordCfgs ==
    { <<Entry("k1", <<"B01">>)>>,
      <<Entry("k1", <<"B01", "B02">>)>>,
      <<Entry("k1", <<"B01">>), Entry("k2", <<"B01">>)>> }

Progs == {"akarsh", "self_scrap", "daily", "tracker", "scraper", "backoff", "check",
          "fields", "phrases", "pages"}

CfgsOf(p) ==
    IF p = "akarsh" THEN AkarshYamls
    ELSE IF p = "self_scrap" THEN {c \in AsinCfgs : Len(c) = 1}
    ELSE IF p = "scraper" THEN {c \in KeywordCfgs : Len(c) = 1}
    ELSE IF p = "daily" THEN {c \in KeywordCfgs : \A e \in 1..Len(c) : Len(c[e].vals) = 1}
    ELSE IF p \in {"fields", "phrases", "pages"} THEN {<<>>}
    ELSE KeywordCfgs

NoRank == [page |-> None, position |-> None]
InitRank(p) ==
    IF p \in {"akarsh", "self_scrap"} THEN NoRank
    ELSE IF p = "tracker" THEN [s |-> "Not Found"]
    ELSE None

\* tracker.py line 21: rows starts with the header row
InitRows(p) == IF p = "tracker" THEN <<[header |-> TRUE]>> ELSE <<>>

NoFetch == [failed |-> FALSE, status |-> None, content |-> None, blocked |-> FALSE]

Init ==
    /\ prog \in Progs
    /\ cfg \in CfgsOf(prog)
    /\ entries = <<>>
    /\ pc = "start"
    /\ ei = 1 /\ vi = 1
    /\ page = 0 /\ abs_index = 0 /\ tries = 0
    /\ ret = "none"
    /\ html = None
    /\ cur = "none"
    /\ stop = "none"
    /\ rank = InitRank(prog)
    /\ metrics = <<>>
    /\ rows = InitRows(prog)
    /\ report = None
    /\ fetched = <<>> /\ seen = <<>> /\ failedAt = {}
    /\ extracted = {} /\ accepted = {}
    /\ lastFetch = NoFetch
    /\ raised = "none"
    /\ challenged = "none"
    /\ doc \in DocsOf(prog)
    /\ out = NoOut
    /\ artifact = None
    /\ detail = [a \in Asins |-> 0]
    /\ slept = None
    /\ paused = TRUE
    /\ written = ""
    /\ attached = ""

\* one more detail-page fetch of item a
one_more(count, a) == [count EXCEPT ![a] = @ + 1]

\* the histories of one rank resolution
ResolutionVars == <<page, abs_index, rank, fetched, seen, failedAt, stop>>
MainVars == <<prog, cfg, entries, ei, vi, cur, metrics, rows, report, raised>>
FetchVars == <<tries, ret, html, extracted, accepted, lastFetch>>

----------------------------------------------------------------------------
(* self_scrap_akarsh.py *)

\* get_html line 107: the response is returned as content
get_html_accepts(r) == r.status = 200 /\ ~is_captcha(r.body)

OutcomesFor(r) ==
    IF r = "boot" THEN HomeOutcomes
    ELSE IF r = "rank_got" THEN SearchOutcomes
    ELSE PdpOutcomes

\* get_html line 112: time.sleep(random.uniform(*sleep_range)) with the default
\* sleep_range=(1.0, 2.2); a delay is the range it is drawn from, in tenths of a second
get_html_sleep == [lo |-> 10, hi |-> 22]

\* a loop that makes one pass more
try_in_range_one_more(i) == i <= max_retries

\* get_html line 103: for i in range(max_retries)
try_in_range(i) == i < max_retries

\* get_html: one pass of the retry loop, or the return None after it
akarsh_get_html ==
    /\ prog = "akarsh" /\ pc = "get_html"
    /\ IF try_in_range(tries)
       THEN \E o \in Timed(OutcomesFor(ret)) :
              IF ~IsExc(o) /\ get_html_accepts(o)
              THEN /\ html' = Some(o)
                   /\ accepted' = accepted \cup {Seen(o)}
                   /\ tries' = 0
                   /\ lastFetch' = [failed |-> FALSE, status |-> Some([code |-> o.status]),
                                    content |-> Some(Seen(o)), blocked |-> FALSE]
                   /\ pc' = ret
                   /\ slept' = None
              ELSE \* warning logged, time.sleep(random.uniform(*sleep_range)), next try
                   /\ tries' = tries + 1
                   /\ slept' = Some(get_html_sleep)
                   /\ UNCHANGED <<html, accepted, lastFetch, pc>>
       ELSE /\ html' = None
            /\ lastFetch' = [failed |-> TRUE, status |-> None, content |-> None,
                             blocked |-> FALSE]
            /\ pc' = ret
            /\ tries' = 0
            /\ slept' = None
            /\ UNCHANGED accepted
    /\ UNCHANGED <<ret, extracted>>
    /\ UNCHANGED ResolutionVars /\ UNCHANGED MainVars
    /\ UNCHANGED challenged
    /\ UNCHANGED doc
    /\ UNCHANGED out
    /\ UNCHANGED artifact
    /\ UNCHANGED detail
    /\ paused' = IF try_in_range(tries) THEN pc' = "get_html" ELSE paused
    /\ UNCHANGED written
    /\ UNCHANGED attached

\* str.strip on the strings of the input files
strip(x) == IF x = " " THEN "" ELSE IF x = "k2 " THEN "k2" ELSE x

\* a variant that keeps only the keywords that need no stripping
kept_keywords_unstripped(kws) == SelectSeq(kws, LAMBDA k : strip(k) /= "" /\ strip(k) = k)

\* load_keywords_yaml line 74: [k.strip() for k in kws if k.strip()]
kept_keywords(kws) ==
    LET kept == SelectSeq(kws, LAMBDA k : strip(k) /= "")
    IN  [i \in 1..Len(kept) |-> strip(kept[i])]

\* load_keywords_yaml lines 65-77
RECURSIVE load_keywords_yaml(_)
load_keywords_yaml(cfg_list) ==
    IF cfg_list = <<>> THEN <<>>
    ELSE LET entry == cfg_list[1]
             asin == strip(entry.key)
             rest == load_keywords_yaml(Tail(cfg_list))
         IN  IF asin = "" \/ "vals" \notin DOMAIN entry THEN rest
             ELSE <<Entry(asin, kept_keywords(entry.vals))>> \o rest

\* __main__ line 271: asin_entries = load_keywords_yaml(...)
akarsh_load ==
    /\ prog = "akarsh" /\ pc = "start"
    /\ entries' = load_keywords_yaml(cfg)
    /\ pc' = "entry"
    /\ UNCHANGED <<prog, cfg, ei, vi, cur, metrics, rows, report, raised>>
    /\ UNCHANGED FetchVars /\ UNCHANGED ResolutionVars
    /\ UNCHANGED challenged
    /\ UNCHANGED doc
    /\ UNCHANGED out
    /\ UNCHANGED artifact
    /\ UNCHANGED detail
    /\ UNCHANGED slept
    /\ UNCHANGED paused
    /\ UNCHANGED written
    /\ UNCHANGED attached

\* __main__ lines 278-285: next entry, bootstrap_session starts with get_html(home)
akarsh_main_entry ==
    /\ prog = "akarsh" /\ pc = "entry"
    /\ IF ei > Len(entries)
       THEN pc' = "save" /\ UNCHANGED <<tries, ret>>
       ELSE pc' = "get_html" /\ tries' = 0 /\ ret' = "boot"
    /\ UNCHANGED <<html, extracted, accepted, lastFetch>>
    /\ UNCHANGED ResolutionVars /\ UNCHANGED MainVars
    /\ UNCHANGED challenged
    /\ UNCHANGED doc
    /\ UNCHANGED out
    /\ UNCHANGED artifact
    /\ UNCHANGED detail
    /\ UNCHANGED slept
    /\ UNCHANGED paused
    /\ UNCHANGED written
    /\ UNCHANGED attached

PostOutcomes == {Exc, Resp(200, HomeBody), Resp(503, ErrorBody)}

\* bootstrap_session lines 134-151 with post_json: the home page is only logged,
\* the pincode is always set ("110001" by default)
akarsh_post_json ==
    /\ prog = "akarsh" /\ pc \in {"boot", "post_json"}
    /\ LET i == IF pc = "boot" THEN 0 ELSE tries
       IN  IF i < post_max_retries + 1
           THEN \E o \in Timed(PostOutcomes) :
                  IF ~IsExc(o) /\ o.status = 200
                  THEN pc' = "kw" /\ tries' = 0
                  ELSE pc' = "post_json" /\ tries' = i + 1
           ELSE pc' = "kw" /\ tries' = 0
    /\ html' = None
    /\ UNCHANGED <<ret, extracted, accepted, lastFetch>>
    /\ UNCHANGED ResolutionVars /\ UNCHANGED MainVars
    /\ UNCHANGED challenged
    /\ UNCHANGED doc
    /\ UNCHANGED out
    /\ UNCHANGED artifact
    /\ UNCHANGED detail
    /\ UNCHANGED slept
    /\ paused' = LET i == IF pc = "boot" THEN 0 ELSE tries
                  IN  IF i < post_max_retries + 1
                      THEN pc' = "post_json" /\ i < post_max_retries
                      ELSE paused
    /\ UNCHANGED written
    /\ UNCHANGED attached

\* a variant that counts a page that failed as one
skipped_counts_one(n) == n + 1

\* get_keyword_rank lines 230-232, get_search_rank lines 273-275: the counter
\* after a page whose fetch failed, the loop goes on with continue
skipped(n) == n

\* a variant that counts a page as one
counted_per_page(n, tiles) == IF tiles = <<>> THEN n ELSE n + 1

\* get_keyword_rank lines 237-238: abs_index += 1 for every tile of the page
counted(n, tiles) == n + Len(tiles)

\* a variant that stays on the page
next_page_same(p) == p

\* get_keyword_rank line 226: the loop variable takes the next value of the range
next_page(p) == p + 1

\* a variant whose range stops one page early
page_in_range_short(p) == p < MaxPages

\* get_keyword_rank line 226: for page in range(1, max_pages + 1)
page_in_range(p) == p <= MaxPages

\* a variant whose loop starts at the second tile
first_match_after_first(tiles, asin) ==
    IF \E i \in 2..Len(tiles) : tiles[i] = asin
    THEN CHOOSE i \in 2..Len(tiles) : tiles[i] = asin /\ \A j \in 2..(i - 1) : tiles[j] /= asin
    ELSE 0

\* get_keyword_rank lines 237-239: the enumerate loop stops at the first a == asin;
\* 1-based index of the match, 0 when the loop runs out
first_match(tiles, asin) ==
    IF \E i \in 1..Len(tiles) : tiles[i] = asin
    THEN CHOOSE i \in 1..Len(tiles) : tiles[i] = asin /\ \A j \in 1..(i - 1) : tiles[j] /= asin
    ELSE 0

\* a variant of akarsh_found that counts from zero
akarsh_found_from_zero(p, idx, a) == [page |-> Some(p), position |-> Some(a - 1)]

\* get_keyword_rank line 240: return page, abs_index
akarsh_found(p, idx, a) == [page |-> Some(p), position |-> Some(a)]

\* __main__ lines 287-288: next keyword of the entry, get_keyword_rank starts
akarsh_main_keyword ==
    /\ prog = "akarsh" /\ pc = "kw"
    /\ IF vi > Len(entries[ei].vals)
       THEN /\ ei' = ei + 1 /\ vi' = 1 /\ pc' = "entry"
            /\ UNCHANGED ResolutionVars
       ELSE /\ abs_index' = 0 /\ page' = 1
            /\ fetched' = <<>> /\ seen' = <<>> /\ failedAt' = {}
            /\ rank' = NoRank /\ stop' = "none"
            /\ pc' = "rank_page"
            /\ UNCHANGED <<ei, vi>>
    /\ UNCHANGED <<prog, cfg, entries, cur, metrics, rows, report, raised>>
    /\ UNCHANGED <<tries, ret, html, extracted, accepted, lastFetch>>
    /\ UNCHANGED challenged
    /\ UNCHANGED doc
    /\ UNCHANGED out
    /\ UNCHANGED artifact
    /\ UNCHANGED detail
    /\ UNCHANGED slept
    /\ UNCHANGED paused
    /\ UNCHANGED written
    /\ UNCHANGED attached

\* get_keyword_rank lines 226-229: loop head, get_html(url) is called
akarsh_get_keyword_rank_page ==
    /\ prog = "akarsh" /\ pc = "rank_page"
    /\ IF ~page_in_range(page)
       THEN /\ rank' = NoRank /\ stop' = "exhausted"
            /\ pc' = "bsr"
            /\ UNCHANGED <<fetched, tries, ret>>
       ELSE /\ fetched' = Append(fetched, page)
            /\ tries' = 0 /\ ret' = "rank_got" /\ pc' = "get_html"
            /\ UNCHANGED <<rank, stop>>
    /\ UNCHANGED <<page, abs_index, seen, failedAt>>
    /\ UNCHANGED <<html, extracted, accepted, lastFetch>>
    /\ UNCHANGED MainVars
    /\ UNCHANGED challenged
    /\ UNCHANGED doc
    /\ UNCHANGED out
    /\ UNCHANGED artifact
    /\ UNCHANGED detail
    /\ UNCHANGED slept
    /\ UNCHANGED paused
    /\ UNCHANGED written
    /\ UNCHANGED attached

\* get_keyword_rank lines 230-241: the page came back (or not), scan its tiles
akarsh_get_keyword_rank_scan ==
    /\ prog = "akarsh" /\ pc = "rank_got"
    /\ IF html = None
       THEN /\ failedAt' = failedAt \cup {page}
            /\ seen' = Append(seen, <<>>)
            /\ page' = next_page(page)
            /\ pc' = "rank_page"
            /\ abs_index' = skipped(abs_index)
            /\ UNCHANGED <<rank, extracted, stop>>
       ELSE LET tiles == akarsh_tiles(Val(html).body)
                idx == first_match(tiles, entries[ei].key)
            IN  /\ extracted' = extracted \cup {Seen(Val(html))}
                /\ seen' = Append(seen, tiles)
                /\ UNCHANGED failedAt
                /\ IF idx > 0
                   THEN /\ abs_index' = abs_index + idx
                        /\ rank' = akarsh_found(page, idx, abs_index + idx)
                        /\ stop' = "found"
                        /\ pc' = "bsr"
                        /\ UNCHANGED page
                   ELSE /\ abs_index' = counted(abs_index, tiles)
                        /\ page' = next_page(page)
                        /\ pc' = "rank_page"
                        /\ UNCHANGED <<rank, stop>>
    /\ html' = None
    /\ UNCHANGED <<fetched, tries, ret, accepted, lastFetch>>
    /\ UNCHANGED MainVars
    /\ UNCHANGED challenged
    /\ UNCHANGED doc
    /\ UNCHANGED out
    /\ UNCHANGED artifact
    /\ UNCHANGED detail
    /\ UNCHANGED slept
    /\ paused' = IF html /= None /\ stop' = "found" THEN paused ELSE TRUE
    /\ UNCHANGED written
    /\ UNCHANGED attached

\* get_bsr lines 186-187: get_html(pdp url) is called
akarsh_get_bsr ==
    /\ prog = "akarsh" /\ pc = "bsr"
    /\ tries' = 0 /\ ret' = "bsr_got" /\ pc' = "get_html"
    /\ page' = 0 /\ abs_index' = 0
    /\ fetched' = <<>> /\ seen' = <<>> /\ failedAt' = {}
    /\ stop' = "none"
    /\ UNCHANGED <<rank, html, extracted, accepted, lastFetch>>
    /\ UNCHANGED MainVars
    /\ UNCHANGED challenged
    /\ UNCHANGED doc
    /\ UNCHANGED out
    /\ UNCHANGED artifact
    /\ detail' = one_more(detail, entries[ei].key)
    /\ UNCHANGED slept
    /\ UNCHANGED paused
    /\ UNCHANGED written
    /\ UNCHANGED attached

\* __main__ lines 290-291: page if page else "Not found"
Cell(o) == IF IsSome(o) /\ Val(o) /= 0 THEN [n |-> Val(o)] ELSE [s |-> "Not found"]

\* get_bsr lines 188-190, then __main__ lines 290-294: the row of the pair
akarsh_main_row ==
    /\ prog = "akarsh" /\ pc = "bsr_got"
    /\ LET parsed == IF html = None THEN None ELSE parse_bsr_from_soup(Val(html).body)
           bsr == IF IsSome(parsed) THEN Val(parsed) ELSE "BSR not available"
       IN  /\ rows' = Append(rows, [keyword |-> entries[ei].vals[vi], asin |-> entries[ei].key,
                                    page_val |-> Cell(rank.page),
                                    pos_val |-> Cell(rank.position), bsr |-> bsr])
           /\ extracted' = IF html = None THEN extracted
                           ELSE extracted \cup {Seen(Val(html))}
    /\ vi' = vi + 1
    /\ pc' = "kw"
    /\ html' = None /\ rank' = NoRank
    /\ UNCHANGED <<prog, cfg, entries, ei, cur, metrics, report, raised>>
    /\ UNCHANGED <<tries, ret, accepted, lastFetch>>
    /\ UNCHANGED <<page, abs_index, fetched, seen, failedAt, stop>>
    /\ UNCHANGED challenged
    /\ UNCHANGED doc
    /\ UNCHANGED out
    /\ UNCHANGED artifact
    /\ UNCHANGED detail
    /\ UNCHANGED slept
    /\ paused' = TRUE
    /\ UNCHANGED written
    /\ UNCHANGED attached

\* __main__ line 296: save_to_csv(results, "results_akarsh.csv")
akarsh_save_to_csv ==
    /\ prog = "akarsh" /\ pc = "save"
    /\ report' = Some(rows)
    /\ pc' = "email"
    /\ UNCHANGED <<prog, cfg, entries, ei, vi, cur, metrics, rows, raised>>
    /\ UNCHANGED <<tries, ret, html, extracted, accepted, lastFetch>>
    /\ UNCHANGED ResolutionVars
    /\ UNCHANGED challenged
    /\ UNCHANGED doc
    /\ UNCHANGED out
    /\ UNCHANGED artifact
    /\ UNCHANGED detail
    /\ UNCHANGED slept
    /\ UNCHANGED paused
    /\ written' = "results_akarsh.csv"
    /\ UNCHANGED attached

\* __main__ lines 298-306: send_email opens "results.csv", which this run did
\* not write: it is there only if an earlier program left it
akarsh_send_email ==
    /\ prog = "akarsh" /\ pc = "email"
    /\ \E configured \in BOOLEAN, left_over \in BOOLEAN :
         IF configured /\ ~left_over
         THEN pc' = "aborted" /\ raised' = "io" /\ UNCHANGED attached
         ELSE /\ pc' = "done" /\ UNCHANGED raised
              /\ attached' = IF configured THEN "results.csv" ELSE ""
    /\ UNCHANGED <<prog, cfg, entries, ei, vi, cur, metrics, rows, report>>
    /\ UNCHANGED <<tries, ret, html, extracted, accepted, lastFetch>>
    /\ UNCHANGED ResolutionVars
    /\ UNCHANGED challenged
    /\ UNCHANGED doc
    /\ UNCHANGED out
    /\ UNCHANGED artifact
    /\ UNCHANGED detail
    /\ UNCHANGED slept
    /\ UNCHANGED paused
    /\ UNCHANGED written

----------------------------------------------------------------------------
(* self_scrap.py: requests.get without status test, challenge test, try or *)
(* timeout                                                                 *)

\* get_keyword_rank line 48: return page, idx
selfscrap_found(p, idx, a) == [page |-> Some(p), position |-> Some(idx)]

\* get_bsr lines 26-36: detail bullets, then the product details table
selfscrap_parse_bsr(body) ==
    IF body.bsr = Some("li") THEN Some("li: Best Sellers Rank #1")
    ELSE IF body.bsr = Some("tr") THEN Some("tr: Best Sellers Rank #1")
    ELSE None

\* __main__ lines 100-101: next keyword, get_keyword_rank starts
selfscrap_main_keyword ==
    /\ prog = "self_scrap" /\ pc \in {"start", "kw"}
    /\ IF vi > Len(cfg[ei].vals)
       THEN /\ pc' = "save"
            /\ UNCHANGED ResolutionVars
       ELSE /\ abs_index' = 0 /\ page' = 1
            /\ fetched' = <<>> /\ seen' = <<>> /\ failedAt' = {}
            /\ rank' = NoRank /\ stop' = "none"
            /\ pc' = "rank_page"
    /\ UNCHANGED MainVars /\ UNCHANGED FetchVars
    /\ UNCHANGED challenged
    /\ UNCHANGED doc
    /\ UNCHANGED out
    /\ UNCHANGED artifact
    /\ UNCHANGED detail
    /\ UNCHANGED slept
    /\ UNCHANGED paused
    /\ UNCHANGED written
    /\ UNCHANGED attached

\* get_keyword_rank lines 40-50: one page of the loop, or the return after it
selfscrap_get_keyword_rank ==
    /\ prog = "self_scrap" /\ pc = "rank_page"
    /\ IF ~page_in_range(page)
       THEN /\ rank' = NoRank /\ stop' = "exhausted"
            /\ pc' = "bsr"
            /\ UNCHANGED <<page, abs_index, fetched, seen, failedAt>>
            /\ UNCHANGED <<extracted, accepted, raised>>
       ELSE \E o \in SearchOutcomes \cup {Hang} :
              /\ fetched' = Append(fetched, page)
              /\ IF o = Hang
                 THEN \* requests.get has no timeout: the call never returns
                      /\ pc' = "hung"
                      /\ UNCHANGED <<page, abs_index, rank, seen, failedAt, stop>>
                      /\ UNCHANGED <<extracted, accepted, raised>>
                 ELSE IF IsExc(o)
                 THEN \* requests.get raises: nothing catches it
                      /\ raised' = "network" /\ pc' = "aborted"
                      /\ failedAt' = failedAt \cup {page}
                      /\ stop' = "error"
                      /\ UNCHANGED <<page, abs_index, rank, seen>>
                      /\ UNCHANGED <<extracted, accepted>>
                 ELSE LET results == sel_data_asin(o.body)
                          idx == first_match(results, cfg[ei].key)
                      IN  /\ accepted' = accepted \cup {Seen(o)}
                          /\ extracted' = extracted \cup {Seen(o)}
                          /\ seen' = Append(seen, results)
                          /\ UNCHANGED <<abs_index, failedAt, raised>>
                          /\ IF idx > 0
                             THEN /\ rank' = selfscrap_found(page, idx, abs_index)
                                  /\ stop' = "found"
                                  /\ pc' = "bsr"
                                  /\ UNCHANGED page
                             ELSE /\ page' = next_page(page)
                                  /\ pc' = "rank_page"
                                  /\ UNCHANGED <<rank, stop>>
    /\ UNCHANGED <<prog, cfg, entries, ei, vi, cur, metrics, rows, report>>
    /\ UNCHANGED <<tries, ret, html, lastFetch>>
    /\ UNCHANGED challenged
    /\ UNCHANGED doc
    /\ UNCHANGED out
    /\ UNCHANGED artifact
    /\ UNCHANGED detail
    /\ UNCHANGED slept
    /\ UNCHANGED paused
    /\ UNCHANGED written
    /\ UNCHANGED attached

\* get_bsr, then __main__ lines 104-108: the row of the keyword
selfscrap_main_row ==
    /\ prog = "self_scrap" /\ pc = "bsr"
    /\ \E o \in PdpOutcomes \cup {Hang} :
         IF o = Hang
         THEN \* requests.get has no timeout: the call never returns
              /\ pc' = "hung"
              /\ UNCHANGED <<raised, vi, rows, extracted, accepted, rank>>
         ELSE IF IsExc(o)
         THEN /\ raised' = "network" /\ pc' = "aborted"
              /\ UNCHANGED <<vi, rows, extracted, accepted, rank>>
         ELSE LET parsed == selfscrap_parse_bsr(o.body)
                  bsr == IF IsSome(parsed) THEN Val(parsed) ELSE "BSR not available"
              IN  /\ rows' = Append(rows, [keyword |-> cfg[ei].vals[vi], asin |-> cfg[ei].key,
                                           page_val |-> Cell(rank.page),
                                           pos_val |-> Cell(rank.position), bsr |-> bsr])
                  /\ accepted' = accepted \cup {Seen(o)}
                  /\ extracted' = extracted \cup {Seen(o)}
                  /\ vi' = vi + 1
                  /\ rank' = NoRank
                  /\ pc' = "kw"
                  /\ UNCHANGED raised
    /\ page' = 0 /\ abs_index' = 0
    /\ fetched' = <<>> /\ seen' = <<>> /\ failedAt' = {}
    /\ stop' = "none"
    /\ UNCHANGED <<prog, cfg, entries, ei, cur, metrics, report>>
    /\ UNCHANGED <<tries, ret, html, lastFetch>>
    /\ UNCHANGED challenged
    /\ UNCHANGED doc
    /\ UNCHANGED out
    /\ UNCHANGED artifact
    /\ UNCHANGED detail
    /\ UNCHANGED slept
    /\ UNCHANGED paused
    /\ UNCHANGED written
    /\ UNCHANGED attached

\* __main__ lines 111-119: save_to_csv(results), then send_email("results.csv")
selfscrap_save_to_csv ==
    /\ prog = "self_scrap" /\ pc = "save"
    /\ report' = Some(rows)
    /\ pc' = "done"
    /\ UNCHANGED <<prog, cfg, entries, ei, vi, cur, metrics, rows, raised>>
    /\ UNCHANGED FetchVars /\ UNCHANGED ResolutionVars
    /\ UNCHANGED challenged
    /\ UNCHANGED doc
    /\ UNCHANGED out
    /\ UNCHANGED artifact
    /\ UNCHANGED detail
    /\ UNCHANGED slept
    /\ UNCHANGED paused
    /\ written' = "results.csv"
    /\ attached' = "results.csv"

----------------------------------------------------------------------------
(* daily_tracker.py: Selenium; a page load either raises or leaves a page  *)

NextControls == {"enabled", "disabled", "absent"}

DailySearchOutcomes ==
    {Exc, Resp(200, ChallengeBody), Resp(200, RobotSlotBody)}
        \cup {Resp(200, SearchBody(l, ids, nx)) : l \in Layouts, ids \in TileLists,
                                                  nx \in NextControls}

DailyPdpOutcomes == {Exc, Resp(200, ChallengeBody)} \cup {Resp(200, b) : b \in PdpBodies}

\* scrape_asin lines 237-255: the detail boxes, then the regex on page_source
daily_bsr(body) ==
    IF body.bsr = Some("li") \/ body.bsr = Some("tr") THEN Some("box: Best Sellers Rank #1")
    ELSE IF body.bsr = Some("text") \/ body.bsr = Some("raw") THEN Some("#1 in Category")
    ELSE None

\* main line 357: unique_asins
UniqueAsins(c) == UNION {Range(c[e].vals) : e \in 1..Len(c)}

\* get_search_rank line 291: the dict returned on a match
daily_found(p, idx, a) == Some([page |-> p, position |-> idx, absolute |-> a])

\* main lines 356-361 with scrape_asin: PDP metrics once per item of unique_asins
daily_scrape_asin ==
    /\ prog = "daily" /\ pc \in {"start", "pdp"}
    /\ LET todo == UniqueAsins(cfg) \ DOMAIN metrics
       IN  IF todo = {}
           THEN /\ pc' = "kw"
                /\ challenged' = "none"
                /\ UNCHANGED <<metrics, extracted, accepted, lastFetch, detail>>
           ELSE \E a \in todo, o \in DailyPdpOutcomes :
                  LET bare == [asin |-> a, loaded |-> FALSE, bsr |-> None]
                      data ==
                          IF IsExc(o) THEN bare
                          ELSE IF hit_robot_check(o.body) THEN bare
                          ELSE [asin |-> a, loaded |-> TRUE, bsr |-> daily_bsr(o.body)]
                      ok == ~IsExc(o) /\ ~hit_robot_check(o.body)
                  IN  /\ metrics' = [x \in DOMAIN metrics \cup {a} |->
                                        IF x = a THEN data ELSE metrics[x]]
                      /\ extracted' = IF ok THEN extracted \cup {Seen(o)} ELSE extracted
                      /\ accepted' = IF ok THEN accepted \cup {Seen(o)} ELSE accepted
                      /\ lastFetch' = [failed |-> ~ok, status |-> None,
                                       content |-> IF ok THEN Some(Seen(o)) ELSE None,
                                       blocked |-> FALSE]
                      \* lines 218-220: "Robot Check on PDP", return data
                      /\ challenged' = IF ~IsExc(o) /\ hit_robot_check(o.body)
                                       THEN "item" ELSE "none"
                      /\ detail' = one_more(detail, a)
                      /\ pc' = "pdp"
    /\ UNCHANGED <<prog, cfg, entries, ei, vi, cur, rows, report, raised>>
    /\ UNCHANGED <<tries, ret, html>>
    /\ UNCHANGED ResolutionVars
    /\ UNCHANGED doc
    /\ UNCHANGED out
    /\ UNCHANGED artifact
    /\ UNCHANGED slept
    /\ paused' = IF detail' /= detail THEN TRUE ELSE paused
    /\ UNCHANGED written
    /\ UNCHANGED attached

\* main lines 364-367: next (keyword, item) pair, get_search_rank starts
daily_main_pair ==
    /\ prog = "daily" /\ pc = "kw"
    /\ IF ei > Len(cfg)
       THEN /\ pc' = "write"
            /\ UNCHANGED <<ei, vi>> /\ UNCHANGED ResolutionVars
       ELSE IF vi > Len(cfg[ei].vals)
       THEN /\ ei' = ei + 1 /\ vi' = 1 /\ pc' = "kw"
            /\ UNCHANGED ResolutionVars
       ELSE /\ abs_index' = 0 /\ page' = 1
            /\ fetched' = <<>> /\ seen' = <<>> /\ failedAt' = {}
            /\ rank' = None /\ stop' = "none"
            /\ pc' = "rank_page"
            /\ UNCHANGED <<ei, vi>>
    /\ UNCHANGED <<prog, cfg, entries, cur, metrics, rows, report, raised>>
    /\ UNCHANGED FetchVars
    /\ UNCHANGED challenged
    /\ UNCHANGED doc
    /\ UNCHANGED out
    /\ UNCHANGED artifact
    /\ UNCHANGED detail
    /\ UNCHANGED slept
    /\ UNCHANGED paused
    /\ UNCHANGED written
    /\ UNCHANGED attached

\* get_search_rank lines 267-302: one page of the loop, or the return after it
daily_get_search_rank ==
    /\ prog = "daily" /\ pc = "rank_page"
    /\ IF ~page_in_range(page)
       THEN /\ rank' = None /\ stop' = "exhausted"
            /\ pc' = "row"
            /\ UNCHANGED <<page, abs_index, fetched, seen, failedAt>>
            /\ UNCHANGED <<extracted, accepted, challenged>>
       ELSE \E o \in DailySearchOutcomes :
              /\ fetched' = Append(fetched, page)
              /\ challenged' = IF ~IsExc(o) /\ has_main_slot(o.body) /\ hit_robot_check(o.body)
                               THEN "page" ELSE "none"
              /\ IF IsExc(o) \/ ~has_main_slot(o.body)
                 THEN \* driver.get or the wait for div.s-main-slot raises:
                      \* "Search load issue", continue
                      /\ failedAt' = failedAt \cup {page}
                      /\ seen' = Append(seen, <<>>)
                      /\ page' = next_page(page)
                      /\ pc' = "rank_page"
                      /\ abs_index' = skipped(abs_index)
                      /\ UNCHANGED <<rank, stop, extracted, accepted>>
                 ELSE IF hit_robot_check(o.body)
                 THEN \* "Robot Check on search": return None
                      /\ failedAt' = failedAt \cup {page}
                      /\ seen' = Append(seen, <<>>)
                      /\ rank' = None /\ stop' = "robot"
                      /\ pc' = "row"
                      /\ UNCHANGED <<page, abs_index, extracted, accepted>>
                 ELSE LET data_asins == sel_slot(o.body)
                          idx == first_match(data_asins, cfg[ei].vals[vi])
                      IN  /\ accepted' = accepted \cup {Seen(o)}
                          /\ extracted' = extracted \cup {Seen(o)}
                          /\ seen' = Append(seen, data_asins)
                          /\ UNCHANGED failedAt
                          /\ IF idx > 0
                             THEN /\ abs_index' = abs_index + idx
                                  /\ rank' = daily_found(page, idx, abs_index + idx)
                                  /\ stop' = "found"
                                  /\ pc' = "row"
                                  /\ UNCHANGED page
                             ELSE IF o.body.next \in {"disabled", "absent"}
                             THEN \* pagination stop: break, then return None
                                  /\ abs_index' = counted(abs_index, data_asins)
                                  /\ rank' = None /\ stop' = "pagination"
                                  /\ pc' = "row"
                                  /\ UNCHANGED page
                             ELSE /\ abs_index' = counted(abs_index, data_asins)
                                  /\ page' = next_page(page)
                                  /\ pc' = "rank_page"
                                  /\ UNCHANGED <<rank, stop>>
    /\ UNCHANGED MainVars
    /\ UNCHANGED <<tries, ret, html, lastFetch>>
    /\ UNCHANGED doc
    /\ UNCHANGED out
    /\ UNCHANGED artifact
    /\ UNCHANGED detail
    /\ UNCHANGED slept
    /\ paused' = IF page_in_range(page)
                  THEN page \notin failedAt' \/ stop' = "robot"
                  ELSE paused
    /\ UNCHANGED written
    /\ UNCHANGED attached

\* main lines 368-382: the row of the pair
daily_main_row ==
    /\ prog = "daily" /\ pc = "row"
    /\ LET a == cfg[ei].vals[vi]
           base == metrics[a]
       IN  rows' = Append(rows,
                     [keyword |-> cfg[ei].key, asin |-> a, bsr |-> base.bsr,
                      rank_page |-> IF IsSome(rank) THEN Some(Val(rank).page) ELSE None,
                      rank_position |-> IF IsSome(rank) THEN Some(Val(rank).position) ELSE None,
                      rank_absolute |-> IF IsSome(rank) THEN Some(Val(rank).absolute) ELSE None])
    /\ vi' = vi + 1
    /\ pc' = "kw"
    /\ rank' = None
    /\ page' = 0 /\ abs_index' = 0
    /\ fetched' = <<>> /\ seen' = <<>> /\ failedAt' = {}
    /\ stop' = "none"
    /\ UNCHANGED <<prog, cfg, entries, ei, cur, metrics, report, raised>>
    /\ UNCHANGED FetchVars
    /\ challenged' = "none"
    /\ UNCHANGED doc
    /\ UNCHANGED out
    /\ UNCHANGED artifact
    /\ UNCHANGED detail
    /\ UNCHANGED slept
    /\ paused' = TRUE
    /\ UNCHANGED written
    /\ UNCHANGED attached

\* main lines 383-392: the driver is closed, the CSV written
daily_write_csv ==
    /\ prog = "daily" /\ pc = "write"
    /\ report' = Some(rows)
    /\ pc' = "done"
    /\ UNCHANGED <<prog, cfg, entries, ei, vi, cur, metrics, rows, raised>>
    /\ UNCHANGED FetchVars /\ UNCHANGED ResolutionVars
    /\ UNCHANGED challenged
    /\ UNCHANGED doc
    /\ UNCHANGED out
    /\ UNCHANGED artifact
    /\ UNCHANGED detail
    /\ UNCHANGED slept
    /\ UNCHANGED paused
    /\ UNCHANGED written
    /\ UNCHANGED attached

----------------------------------------------------------------------------
(* tracker.py: Selenium rank tracker *)

TrackerOutcomes == {Exc, Resp(200, ChallengeBody)} \cup {Resp(200, b) : b \in SearchBodies}

\* get_asin_rank line 33: return (page_num - 1) * len(items) + i
tracker_found(p, idx, n) == [n |-> (p - 1) * n + idx]

\* lines 40-49: next (keyword, item) pair, get_asin_rank starts
tracker_main_pair ==
    /\ prog = "tracker" /\ pc \in {"start", "kw"}
    /\ IF ei > Len(cfg)
       THEN /\ pc' = "write"
            /\ UNCHANGED <<ei, vi>> /\ UNCHANGED ResolutionVars
       ELSE IF vi > Len(cfg[ei].vals)
       THEN /\ ei' = ei + 1 /\ vi' = 1 /\ pc' = "kw"
            /\ UNCHANGED ResolutionVars
       ELSE /\ abs_index' = 0 /\ page' = 1
            /\ fetched' = <<>> /\ seen' = <<>> /\ failedAt' = {}
            /\ rank' = [s |-> "Not Found"] /\ stop' = "none"
            /\ pc' = "rank_page"
            /\ UNCHANGED <<ei, vi>>
    /\ UNCHANGED <<prog, cfg, entries, cur, metrics, rows, report, raised>>
    /\ UNCHANGED FetchVars
    /\ UNCHANGED challenged
    /\ UNCHANGED doc
    /\ UNCHANGED out
    /\ UNCHANGED artifact
    /\ UNCHANGED detail
    /\ UNCHANGED slept
    /\ UNCHANGED paused
    /\ UNCHANGED written
    /\ UNCHANGED attached

\* get_asin_rank lines 24-37: one page of the loop, or the return after it
tracker_get_asin_rank ==
    /\ prog = "tracker" /\ pc = "rank_page"
    /\ IF ~page_in_range(page)
       THEN /\ rank' = [s |-> "Not Found"] /\ stop' = "exhausted"
            /\ pc' = "row"
            /\ UNCHANGED <<page, fetched, seen, failedAt>>
            /\ UNCHANGED <<extracted, accepted>>
       ELSE \E o \in TrackerOutcomes :
              /\ fetched' = Append(fetched, page)
              /\ IF IsExc(o)
                 THEN \* except WebDriverException: return "Error"
                      /\ failedAt' = failedAt \cup {page}
                      /\ seen' = Append(seen, <<>>)
                      /\ rank' = [s |-> "Error"] /\ stop' = "error"
                      /\ pc' = "row"
                      /\ UNCHANGED <<page, extracted, accepted>>
                 ELSE LET items == sel_data_asin(o.body)
                          idx == first_match(items, cfg[ei].vals[vi])
                      IN  /\ accepted' = accepted \cup {Seen(o)}
                          /\ extracted' = extracted \cup {Seen(o)}
                          /\ seen' = Append(seen, items)
                          /\ UNCHANGED failedAt
                          /\ IF idx > 0
                             THEN /\ rank' = tracker_found(page, idx, Len(items))
                                  /\ stop' = "found"
                                  /\ pc' = "row"
                                  /\ UNCHANGED page
                             ELSE /\ page' = next_page(page)
                                  /\ pc' = "rank_page"
                                  /\ UNCHANGED <<rank, stop>>
    /\ UNCHANGED abs_index
    /\ UNCHANGED MainVars
    /\ UNCHANGED <<tries, ret, html, lastFetch>>
    /\ UNCHANGED challenged
    /\ UNCHANGED doc
    /\ UNCHANGED out
    /\ UNCHANGED artifact
    /\ UNCHANGED detail
    /\ UNCHANGED slept
    /\ UNCHANGED paused
    /\ UNCHANGED written
    /\ UNCHANGED attached

\* lines 50-52: the row of the pair
tracker_main_row ==
    /\ prog = "tracker" /\ pc = "row"
    /\ rows' = Append(rows, [keyword |-> cfg[ei].key, asin |-> cfg[ei].vals[vi],
                             rank |-> rank])
    /\ vi' = vi + 1
    /\ pc' = "kw"
    /\ rank' = [s |-> "Not Found"]
    /\ page' = 0 /\ abs_index' = 0
    /\ fetched' = <<>> /\ seen' = <<>> /\ failedAt' = {}
    /\ stop' = "none"
    /\ UNCHANGED <<prog, cfg, entries, ei, cur, metrics, report, raised>>
    /\ UNCHANGED FetchVars
    /\ UNCHANGED challenged
    /\ UNCHANGED doc
    /\ UNCHANGED out
    /\ UNCHANGED artifact
    /\ UNCHANGED detail
    /\ UNCHANGED slept
    /\ UNCHANGED paused
    /\ UNCHANGED written
    /\ UNCHANGED attached

\* lines 54-60: the rankings CSV is written
tracker_write_csv ==
    /\ prog = "tracker" /\ pc = "write"
    /\ report' = Some(rows)
    /\ pc' = "done"
    /\ UNCHANGED <<prog, cfg, entries, ei, vi, cur, metrics, rows, raised>>
    /\ UNCHANGED FetchVars /\ UNCHANGED ResolutionVars
    /\ UNCHANGED challenged
    /\ UNCHANGED doc
    /\ UNCHANGED out
    /\ UNCHANGED artifact
    /\ UNCHANGED detail
    /\ UNCHANGED slept
    /\ UNCHANGED paused
    /\ UNCHANGED written
    /\ UNCHANGED attached

----------------------------------------------------------------------------
(* scraper.py *)

\* fetch_product_page line 16: the response text is returned
fetch_product_page_accepts(r) == r.status = 200

\* parse_listing: the title of the listing, "" when the page has none
parse_listing(body) == [title |-> IF body.kind = "pdp" THEN "title" ELSE ""]

\* polite_fetch_and_parse lines 52-61: one item of the loop
scraper_polite_fetch_and_parse ==
    /\ prog = "scraper" /\ pc \in {"start", "loop"}
    /\ IF vi > Len(cfg[ei].vals)
       THEN /\ pc' = "done"
            /\ UNCHANGED <<vi, metrics, extracted, accepted, lastFetch>>
       ELSE \E o \in Timed(PdpOutcomes) :
              LET a == cfg[ei].vals[vi]
                  ok == ~IsExc(o) /\ fetch_product_page_accepts(o)
                  data == IF ok THEN parse_listing(o.body) ELSE [title |-> ""]
              IN  /\ metrics' = [x \in DOMAIN metrics \cup {a} |->
                                    IF x = a THEN data ELSE metrics[x]]
                  /\ extracted' = IF ok THEN extracted \cup {Seen(o)} ELSE extracted
                  /\ accepted' = IF ok THEN accepted \cup {Seen(o)} ELSE accepted
                  /\ lastFetch' = [failed |-> ~ok,
                                   status |-> IF ok THEN Some([code |-> o.status]) ELSE None,
                                   content |-> IF ok THEN Some(Seen(o)) ELSE None,
                                   blocked |-> FALSE]
                  /\ vi' = vi + 1
                  /\ pc' = "loop"
    /\ UNCHANGED <<prog, cfg, entries, ei, cur, rows, report, raised>>
    /\ UNCHANGED <<tries, ret, html>>
    /\ UNCHANGED ResolutionVars
    /\ UNCHANGED challenged
    /\ UNCHANGED doc
    /\ UNCHANGED out
    /\ UNCHANGED artifact
    /\ UNCHANGED detail
    /\ UNCHANGED slept
    /\ paused' = IF vi > Len(cfg[ei].vals) THEN paused ELSE ~lastFetch'.failed
    /\ UNCHANGED written
    /\ UNCHANGED attached

----------------------------------------------------------------------------
(* extract_keywords_akarsh.py: fetch_with_backoff and its main *)

BOT_MARKERS ==
    {"enter the characters you see below", "validatecaptcha",
     "api-services-support@amazon.com", "to discuss automated access to amazon data",
     "sorry! something went wrong", "unusual traffic from your network", "robot check",
     "type the characters you see in the picture",
     "amazon.com has detected unusual traffic", "we've detected unusual activity",
     "help us confirm you are a human", "service temporarily unavailable"}

\* sniff_bot: the list "found"
sniff_bot(body) ==
    (body.markers \cap BOT_MARKERS)
        \cup (IF "captcha" \in body.markers THEN {"captcha"} ELSE {})
        \cup (IF "service temporarily unavailable" \in body.markers
              THEN {"service_unavailable"} ELSE {})

\* fetch_with_backoff line 172: for attempt in range(1, MAX_RETRIES + 1)
attempt_in_range(attempt) == 1 <= attempt /\ attempt <= MAX_RETRIES

\* BACKOFF_BASE ** attempt, in tenths of a second
backoff_power(attempt) == 10 * BACKOFF_BASE ^ attempt

\* fetch_with_backoff lines 183-185: sleep_time = BACKOFF_BASE ** attempt + random.random()
backoff_error_sleep(attempt) ==
    [lo |-> backoff_power(attempt), hi |-> backoff_power(attempt) + 10]

\* fetch_with_backoff lines 228-231: backoff = (BACKOFF_BASE ** attempt) + random.uniform(0.5, 2.5)
backoff_sleep(attempt) ==
    [lo |-> backoff_power(attempt) + 5, hi |-> backoff_power(attempt) + 25]

\* a variant that retries on the status alone
backoff_retries_status_only(r) == r.status >= 500

\* fetch_with_backoff line 226: the attempt is retried
backoff_retries(r) == r.status >= 500 \/ sniff_bot(r.body) /= {}

\* fetch_with_backoff lines 214-222: the result dict of a response
backoff_result(r) ==
    [failed |-> backoff_retries(r), status |-> Some([code |-> r.status]),
     content |-> Some(Seen(r)), blocked |-> sniff_bot(r.body) /= {}]

\* fetch_with_backoff lines 239-247: the failure placeholder
backoff_placeholder ==
    [failed |-> TRUE, status |-> Some([err |-> "ERR"]), content |-> None,
     blocked |-> {"max_retries_exceeded"} /= {}]

\* the first n characters of a text of the given length
prefix_len(len, n) == IF len < n THEN len ELSE n

\* fetch_with_backoff lines 194-200: fh.write(html[:SAVE_HTML_LIMIT])
backoff_debug_file(len) == Some([body |-> len, saved |-> prefix_len(len, SAVE_HTML_LIMIT)])

\* main lines 257-272: all_asins in shuffled order, fetch_with_backoff starts
backoff_main_next ==
    /\ prog = "backoff" /\ pc \in {"start", "loop"}
    /\ LET todo == UniqueAsins(cfg) \ {rows[i].asin : i \in 1..Len(rows)}
       IN  IF todo = {}
           THEN pc' = "save" /\ UNCHANGED <<cur, tries, detail>>
           ELSE \E a \in todo :
                  /\ cur' = a /\ tries' = 0 /\ pc' = "fetch"
                  /\ detail' = one_more(detail, a)
    /\ UNCHANGED <<prog, cfg, entries, ei, vi, metrics, rows, report, raised>>
    /\ UNCHANGED <<ret, html, extracted, accepted, lastFetch>>
    /\ UNCHANGED ResolutionVars
    /\ UNCHANGED challenged
    /\ UNCHANGED doc
    /\ UNCHANGED out
    /\ UNCHANGED artifact
    /\ UNCHANGED slept
    /\ UNCHANGED paused
    /\ UNCHANGED written
    /\ UNCHANGED attached

\* fetch_with_backoff lines 172-247: one attempt, or the placeholder after the loop
backoff_fetch_with_backoff ==
    /\ prog = "backoff" /\ pc = "fetch"
    /\ IF attempt_in_range(tries + 1)
       THEN \E o \in Timed(PdpOutcomes), n \in BodySizes :
              IF IsExc(o)
              THEN \* time.sleep(BACKOFF_BASE ** attempt + random.random()), continue
                   /\ slept' = Some(backoff_error_sleep(tries + 1))
                   /\ tries' = tries + 1
                   /\ UNCHANGED <<pc, lastFetch, accepted, challenged, artifact>>
              ELSE IF backoff_retries(o) /\ tries + 1 < MAX_RETRIES
              THEN \* debug file, time.sleep(backoff), continue
                   /\ artifact' = backoff_debug_file(n)
                   /\ slept' = Some(backoff_sleep(tries + 1))
                   /\ tries' = tries + 1
                   /\ UNCHANGED <<pc, lastFetch, accepted, challenged>>
              ELSE /\ artifact' = backoff_debug_file(n)
                   /\ lastFetch' = backoff_result(o)
                   /\ accepted' = IF backoff_retries(o) THEN accepted
                                  ELSE accepted \cup {Seen(o)}
                   /\ challenged' = IF sniff_bot(o.body) /= {} THEN "item" ELSE "none"
                   /\ tries' = 0
                   /\ slept' = None
                   /\ pc' = "row"
       ELSE /\ lastFetch' = backoff_placeholder
            /\ tries' = 0
            /\ slept' = None
            /\ pc' = "row"
            /\ UNCHANGED <<accepted, challenged, artifact>>
    /\ UNCHANGED MainVars
    /\ UNCHANGED <<ret, html, extracted>>
    /\ UNCHANGED ResolutionVars
    /\ UNCHANGED doc
    /\ UNCHANGED out
    /\ UNCHANGED detail
    /\ UNCHANGED paused
    /\ UNCHANGED written
    /\ UNCHANGED attached

\* main lines 273-292: the summary row of the item
backoff_main_row ==
    /\ prog = "backoff" /\ pc = "row"
    /\ rows' = Append(rows, [asin |-> cur,
                             status |-> IF IsSome(lastFetch.status) THEN Val(lastFetch.status)
                                        ELSE [err |-> "ERR"],
                             bot_detected |-> IF lastFetch.blocked THEN "yes" ELSE "no"])
    /\ pc' = "loop"
    /\ UNCHANGED <<prog, cfg, entries, ei, vi, cur, metrics, report, raised>>
    /\ UNCHANGED FetchVars /\ UNCHANGED ResolutionVars
    /\ challenged' = "none"
    /\ UNCHANGED doc
    /\ UNCHANGED out
    /\ UNCHANGED artifact
    /\ UNCHANGED detail
    /\ UNCHANGED slept
    /\ UNCHANGED paused
    /\ UNCHANGED written
    /\ UNCHANGED attached

\* main lines 300-308: the summary CSV is written
backoff_main_save ==
    /\ prog = "backoff" /\ pc = "save"
    /\ report' = Some(rows)
    /\ pc' = "done"
    /\ UNCHANGED <<prog, cfg, entries, ei, vi, cur, metrics, rows, raised>>
    /\ UNCHANGED FetchVars /\ UNCHANGED ResolutionVars
    /\ UNCHANGED challenged
    /\ UNCHANGED doc
    /\ UNCHANGED out
    /\ UNCHANGED artifact
    /\ UNCHANGED detail
    /\ UNCHANGED slept
    /\ UNCHANGED paused
    /\ UNCHANGED written
    /\ UNCHANGED attached

----------------------------------------------------------------------------
(* check.py: one fetch per item, debug file, summary CSV *)

\* main line 167: sorted(build_asins_set(mapping))
check_all_asins(c) == SelectSeq(<<"B01", "B02">>, LAMBDA a : a \in UniqueAsins(c))

\* fetch_one_asin lines 126-131: snippet = html[:200_000], written to the debug file
check_debug_file(len) == Some([body |-> len, saved |-> prefix_len(len, 200000)])

\* fetch_one_asin line 122: the dict returned when the request raised
check_error_result == [failed |-> TRUE, status |-> None, content |-> None, blocked |-> FALSE]

\* fetch_one_asin lines 150-158: the dict returned for a response
check_result(r) ==
    [failed |-> FALSE, status |-> Some([code |-> r.status]), content |-> Some(Seen(r)),
     blocked |-> sniff_bot(r.body) /= {}]

\* main lines 176-178: the next item of all_asins, or the end of the loop
check_main_next ==
    /\ prog = "check" /\ pc \in {"start", "loop"}
    /\ LET all_asins == check_all_asins(cfg)
       IN  IF Len(rows) = Len(all_asins)
           THEN pc' = "save" /\ UNCHANGED cur
           ELSE cur' = all_asins[Len(rows) + 1] /\ pc' = "fetch"
    /\ UNCHANGED <<prog, cfg, entries, ei, vi, metrics, rows, report, raised>>
    /\ UNCHANGED FetchVars /\ UNCHANGED ResolutionVars
    /\ UNCHANGED <<challenged, doc, out, artifact>>
    /\ UNCHANGED detail
    /\ UNCHANGED slept
    /\ UNCHANGED paused
    /\ UNCHANGED written
    /\ UNCHANGED attached

\* fetch_one_asin lines 108-158: one request, the debug file, the result dict
check_fetch_one_asin ==
    /\ prog = "check" /\ pc = "fetch"
    /\ \E o \in Timed(PdpOutcomes), n \in BodySizes :
         IF IsExc(o)
         THEN lastFetch' = check_error_result /\ UNCHANGED artifact
         ELSE lastFetch' = check_result(o) /\ artifact' = check_debug_file(n)
    /\ pc' = "row"
    /\ UNCHANGED MainVars
    /\ UNCHANGED <<tries, ret, html, extracted, accepted>>
    /\ UNCHANGED ResolutionVars
    /\ UNCHANGED <<challenged, doc, out>>
    /\ detail' = one_more(detail, cur)
    /\ UNCHANGED slept
    /\ UNCHANGED paused
    /\ UNCHANGED written
    /\ UNCHANGED attached

\* main lines 179-197: the summary row of the item
check_main_row ==
    /\ prog = "check" /\ pc = "row"
    /\ rows' = Append(rows, [asin |-> cur,
                             status |-> IF IsSome(lastFetch.status) THEN Val(lastFetch.status)
                                        ELSE [err |-> "ERR"],
                             bot_detected |-> IF lastFetch.blocked THEN "yes" ELSE "no"])
    /\ pc' = "loop"
    /\ UNCHANGED <<prog, cfg, entries, ei, vi, cur, metrics, report, raised>>
    /\ UNCHANGED FetchVars /\ UNCHANGED ResolutionVars
    /\ UNCHANGED <<challenged, doc, out, artifact>>
    /\ UNCHANGED detail
    /\ UNCHANGED slept
    /\ UNCHANGED paused
    /\ UNCHANGED written
    /\ UNCHANGED attached

\* main lines 199-204: the summary CSV is written
check_main_save ==
    /\ prog = "check" /\ pc = "save"
    /\ report' = Some(rows)
    /\ pc' = "done"
    /\ UNCHANGED <<prog, cfg, entries, ei, vi, cur, metrics, rows, raised>>
    /\ UNCHANGED FetchVars /\ UNCHANGED ResolutionVars
    /\ UNCHANGED <<challenged, doc, out, artifact>>
    /\ UNCHANGED detail
    /\ UNCHANGED slept
    /\ UNCHANGED paused
    /\ UNCHANGED written
    /\ UNCHANGED attached

----------------------------------------------------------------------------
(* Field extraction from one product page, function by function.  The page *)
(* is described, per field, by what the i-th locator of the field's        *)
(* strategy list finds: no element, an element with empty text, or an      *)
(* element with text.                                                      *)

\* parse_pdp_metrics: select_one over the field's selectors, the first element
\* with non-empty text wins
RECURSIVE select_first(_, _, _)
select_first(markup, i, n) ==
    IF i > n THEN None
    ELSE IF markup[i] = "text" THEN Some(StrategyText(i))
    ELSE select_first(markup, i + 1, n)

\* self_scrap_akarsh.py parse_pdp_metrics
parse_pdp_metrics(d) ==
    [price |-> select_first(d.price, 1, 5),
     rating |-> select_first(d.rating, 1, 2),
     review_count |-> select_first(d.reviews, 1, 2),
     bsr |-> parse_bsr_from_soup(d)]

\* self_scrap.py get_bsr: the value of the BSR column
selfscrap_get_bsr(d) ==
    [bsr |-> IF IsSome(selfscrap_parse_bsr(d)) THEN selfscrap_parse_bsr(d)
             ELSE Some("BSR not available")]

\* Selenium's driver.find_element: NoSuchElementException when nothing matches
find_element(s) == IF s = "absent" THEN Raised ELSE Some(s)

\* a variant without the try / except around find_element
RECURSIVE first_text_unguarded(_, _, _)
first_text_unguarded(markup, i, n) ==
    IF i > n THEN None
    ELSE LET el == find_element(markup[i])
         IN  IF el = Raised THEN Raised
             ELSE IF Val(el) = "text" THEN Some(StrategyText(i))
             ELSE first_text_unguarded(markup, i + 1, n)

\* daily_tracker.py first_text: try find_element, safe_text; except: continue
RECURSIVE first_text(_, _, _)
first_text(markup, i, n) ==
    IF i > n THEN None
    ELSE LET el == find_element(markup[i])
         IN  IF el = Raised THEN first_text(markup, i + 1, n)
             ELSE IF Val(el) = "text" THEN Some(StrategyText(i))
             ELSE first_text(markup, i + 1, n)

\* daily_tracker.py scrape_asin lines 222-258 on a loaded page: an exception
\* that leaves first_text leaves scrape_asin
scrape_asin_fields(d) ==
    LET price == first_text(d.price, 1, 4)
        rating == first_text(d.rating, 1, 2)
        review_count == first_text(d.reviews, 1, 2)
    IN  IF Raised \in {price, rating, review_count} THEN [raised |-> TRUE]
        ELSE [price |-> price, rating |-> rating, review_count |-> review_count,
              bsr |-> daily_bsr(d)]

\* review_bsr_tracker.py safe_text: the element's text, "N/A" without element
safe_text(s) ==
    IF s = "absent" THEN "N/A" ELSE IF s = "empty" THEN "" ELSE "text"

\* review_bsr_tracker.py extract_data: safe_text(a) or safe_text(b)
extract_data(d) ==
    LET a == safe_text(d.rating[1])
        b == safe_text(d.rating[2])
        star == IF a /= "" THEN (IF a = "text" THEN StrategyText(1) ELSE a)
                ELSE (IF b = "text" THEN StrategyText(2) ELSE b)
        cnt == safe_text(d.reviews[1])
    IN  [star_rating |-> Some(star),
         review_count |-> Some(IF cnt = "text" THEN StrategyText(1) ELSE cnt)]

\* everything but the document under study and its results
ScriptVars == <<cfg, entries, ei, vi, cur, page, abs_index, tries, ret, html, rank,
                metrics, rows, report, fetched, seen, failedAt, stop,
                extracted, accepted, lastFetch, raised, challenged>>

fields_parse_pdp_metrics ==
    /\ prog = "fields" /\ pc = "start"
    /\ out' = [akarsh |-> parse_pdp_metrics(doc)]
    /\ pc' = "f_selfscrap"
    /\ UNCHANGED <<prog, doc>> /\ UNCHANGED ScriptVars
    /\ UNCHANGED artifact
    /\ UNCHANGED detail
    /\ UNCHANGED slept
    /\ UNCHANGED paused
    /\ UNCHANGED written
    /\ UNCHANGED attached

fields_selfscrap_get_bsr ==
    /\ prog = "fields" /\ pc = "f_selfscrap"
    /\ out' = [akarsh |-> out.akarsh, selfscrap |-> selfscrap_get_bsr(doc)]
    /\ pc' = "f_daily"
    /\ UNCHANGED <<prog, doc>> /\ UNCHANGED ScriptVars
    /\ UNCHANGED artifact
    /\ UNCHANGED detail
    /\ UNCHANGED slept
    /\ UNCHANGED paused
    /\ UNCHANGED written
    /\ UNCHANGED attached

fields_scrape_asin ==
    /\ prog = "fields" /\ pc = "f_daily"
    /\ out' = [akarsh |-> out.akarsh, selfscrap |-> out.selfscrap,
               daily |-> scrape_asin_fields(doc)]
    /\ pc' = "f_review"
    /\ UNCHANGED <<prog, doc>> /\ UNCHANGED ScriptVars
    /\ UNCHANGED artifact
    /\ UNCHANGED detail
    /\ UNCHANGED slept
    /\ UNCHANGED paused
    /\ UNCHANGED written
    /\ UNCHANGED attached

fields_extract_data ==
    /\ prog = "fields" /\ pc = "f_review"
    /\ out' = [akarsh |-> out.akarsh, selfscrap |-> out.selfscrap,
               daily |-> out.daily, review |-> extract_data(doc)]
    /\ pc' = "done"
    /\ UNCHANGED <<prog, doc>> /\ UNCHANGED ScriptVars
    /\ UNCHANGED artifact
    /\ UNCHANGED detail
    /\ UNCHANGED slept
    /\ UNCHANGED paused
    /\ UNCHANGED written
    /\ UNCHANGED attached

phrases_normalize_token ==
    /\ prog = "phrases" /\ pc = "start" /\ doc.kind = "token"
    /\ out' = [once |-> normalize_token(doc.text),
               twice |-> normalize_token(normalize_token(doc.text))]
    /\ pc' = "done"
    /\ UNCHANGED <<prog, doc>> /\ UNCHANGED ScriptVars
    /\ UNCHANGED artifact
    /\ UNCHANGED detail
    /\ UNCHANGED slept
    /\ UNCHANGED paused
    /\ UNCHANGED written
    /\ UNCHANGED attached

phrases_extract_phrases_from_text ==
    /\ prog = "phrases" /\ pc = "start" /\ doc.kind = "text"
    /\ out' = [phrases |-> extract_phrases_from_text(doc.text, doc.max_phrases)]
    /\ pc' = "done"
    /\ UNCHANGED <<prog, doc>> /\ UNCHANGED ScriptVars
    /\ UNCHANGED artifact
    /\ UNCHANGED detail
    /\ UNCHANGED slept
    /\ UNCHANGED paused
    /\ UNCHANGED written
    /\ UNCHANGED attached

phrases_fetch_clean_keywords_from_html ==
    /\ prog = "phrases" /\ pc = "start" /\ doc.kind = "item"
    /\ out' = [keywords |-> fetch_clean_keywords_from_html(doc)]
    /\ pc' = "done"
    /\ UNCHANGED <<prog, doc>> /\ UNCHANGED ScriptVars
    /\ UNCHANGED artifact
    /\ UNCHANGED detail
    /\ UNCHANGED slept
    /\ UNCHANGED paused
    /\ UNCHANGED written
    /\ UNCHANGED attached

----------------------------------------------------------------------------
(* The page predicates and parsers, function by function, on one raw page. *)
(* A raw text is described by the phrases it contains, as written.         *)

\* str.lower on the phrases of the raw texts
lower_phrase(p) ==
    IF p = "CAPTCHA" THEN "captcha"
    ELSE IF p = "Amazon" THEN "amazon"
    ELSE IF p = "validateCaptcha" THEN "validatecaptcha"
    ELSE IF p = "Robot Check" THEN "robot check"
    ELSE p

\* the marker substrings of a lower-cased phrase
substrings(p) == IF p = "validatecaptcha" THEN {"validatecaptcha", "captcha"} ELSE {p}

\* html.lower(), as the marker substrings it contains
html_lower(text) ==
    [markers |-> UNION {substrings(lower_phrase(p)) : p \in text.phrases}]

\* is_captcha lines 93-100, on the raw text
pages_is_captcha ==
    /\ prog = "pages" /\ pc = "start" /\ doc.kind = "text"
    /\ out' = [by |-> "is_captcha", challenge |-> is_captcha(html_lower(doc))]
    /\ pc' = "p_sniff"
    /\ UNCHANGED <<prog, doc>> /\ UNCHANGED ScriptVars
    /\ UNCHANGED <<artifact, detail, slept>>
    /\ UNCHANGED paused
    /\ UNCHANGED written
    /\ UNCHANGED attached

\* get_keyword_rank lines 233-236: tiles of the page, and whether they came from
\* the embedded-JSON scan of parse_search_asins_html
pages_parse_search ==
    /\ prog = "pages" /\ pc = "start" /\ doc.kind = "page"
    /\ out' = [tiles |-> akarsh_tiles(doc.body),
               json_tier |-> /\ sel_component(doc.body) = <<>>
                             /\ sel_slot(doc.body) = <<>>
                             /\ re_json_asin(doc.body) /= <<>>]
    /\ pc' = "done"
    /\ UNCHANGED <<prog, doc>> /\ UNCHANGED ScriptVars
    /\ UNCHANGED <<artifact, detail, slept>>
    /\ UNCHANGED paused
    /\ UNCHANGED written
    /\ UNCHANGED attached

\* fetch_one_asin lines 136-137 and fetch_with_backoff lines 190-191:
\* bot_markers = sniff_bot(html.lower()), a challenge when it is not empty
pages_sniff_bot ==
    /\ prog = "pages" /\ pc = "p_sniff"
    /\ out' = [by |-> "sniff_bot", challenge |-> sniff_bot(html_lower(doc)) /= {}]
    /\ pc' = "done"
    /\ UNCHANGED <<prog, doc>> /\ UNCHANGED ScriptVars
    /\ UNCHANGED <<artifact, detail, slept>>
    /\ UNCHANGED paused
    /\ UNCHANGED written
    /\ UNCHANGED attached

----------------------------------------------------------------------------
Next ==
    \/ akarsh_load
    \/ akarsh_main_entry
    \/ akarsh_get_html
    \/ akarsh_post_json
    \/ akarsh_main_keyword
    \/ akarsh_get_keyword_rank_page
    \/ akarsh_get_keyword_rank_scan
    \/ akarsh_get_bsr
    \/ akarsh_main_row
    \/ akarsh_save_to_csv
    \/ akarsh_send_email
    \/ selfscrap_main_keyword
    \/ selfscrap_get_keyword_rank
    \/ selfscrap_main_row
    \/ selfscrap_save_to_csv
    \/ daily_scrape_asin
    \/ daily_main_pair
    \/ daily_get_search_rank
    \/ daily_main_row
    \/ daily_write_csv
    \/ tracker_main_pair
    \/ tracker_get_asin_rank
    \/ tracker_main_row
    \/ tracker_write_csv
    \/ scraper_polite_fetch_and_parse
    \/ backoff_main_next
    \/ backoff_fetch_with_backoff
    \/ backoff_main_row
    \/ backoff_main_save
    \/ check_main_next
    \/ check_fetch_one_asin
    \/ check_main_row
    \/ check_main_save
    \/ fields_parse_pdp_metrics
    \/ fields_selfscrap_get_bsr
    \/ fields_scrape_asin
    \/ fields_extract_data
    \/ phrases_normalize_token
    \/ phrases_extract_phrases_from_text
    \/ phrases_fetch_clean_keywords_from_html
    \/ pages_is_captcha
    \/ pages_parse_search
    \/ pages_sniff_bot

Spec == Init /\ [][Next]_vars

\* the runs of daily_tracker.py and extract_keywords_akarsh.py
ChallengeInit == Init /\ prog \in {"daily", "backoff"}

ChallengeNext ==
    \/ daily_scrape_asin
    \/ daily_main_pair
    \/ daily_get_search_rank
    \/ daily_main_row
    \/ daily_write_csv
    \/ backoff_main_next
    \/ backoff_fetch_with_backoff
    \/ backoff_main_row
    \/ backoff_main_save

\* a script is one sequential process: while a step is possible, one is taken
FairSpec == ChallengeInit /\ [][ChallengeNext]_vars /\ WF_vars(ChallengeNext)

----------------------------------------------------------------------------
(* Vocabulary of the properties *)

\* the item a running or just finished rank resolution looks for
Target ==
    IF prog = "akarsh" THEN entries[ei].key
    ELSE IF prog = "self_scrap" THEN cfg[ei].key
    ELSE cfg[ei].vals[vi]

\* number of identifiers extracted on the pages before the last processed one
PriorCount == SumSeq([i \in 1..(Len(seen) - 1) |-> Len(seen[i])])

\* the absolute position a resolution returned (akarsh: the second component)
RankAbs ==
    IF prog = "akarsh" THEN Val(rank.position)
    ELSE IF prog = "daily" THEN Val(rank).absolute
    ELSE rank.n

\* the per-page position a resolution returned
RankPos ==
    IF prog \in {"akarsh", "self_scrap"} THEN Val(rank.position)
    ELSE Val(rank).position

NotFoundStops == {"exhausted", "robot", "pagination"}

NotFoundRank ==
    IF prog \in {"akarsh", "self_scrap"} THEN rank = NoRank
    ELSE IF prog = "daily" THEN rank = None
    ELSE rank = [s |-> "Not Found"]

UpTo(n) == [i \in 1..n |-> i]

----------------------------------------------------------------------------
(* C1: the body of a response that matches the challenge predicate is      *)
(* never handed to an extractor or identifier scan (self_scrap_akarsh.py   *)
(* get_html, self_scrap.py get_bsr / get_keyword_rank).                    *)
C1_ChallengeNeverExtracted ==
    prog \in {"akarsh", "self_scrap"} => \A r \in extracted : ~r.challenge

(* C2: a fetch hands a response back as usable content only if its status  *)
(* is 200 and its body does not match the challenge predicate (get_html,   *)
(* fetch_with_backoff, fetch_product_page).                                *)
C2_AcceptedOnly200NonChallenge ==
    prog \in {"akarsh", "backoff", "scraper"} =>
        \A r \in accepted : r.status = 200 /\ ~r.challenge

(* C3: when the target is first matched on page p at local position j, the *)
(* absolute position returned is c1 + ... + c(p-1) + j, for any page sizes *)
(* (get_keyword_rank, get_search_rank, get_asin_rank).                     *)
C3_AbsoluteIsCumulative ==
    (stop = "found" /\ prog \in {"akarsh", "daily", "tracker"}) =>
        RankAbs = PriorCount + FirstIndex(seen[Len(seen)], Target)

(* C4: a rank resolution returns at the first identifier equal to the      *)
(* target: the pages fetched are exactly 1..p for the matching page p, no  *)
(* earlier page held the target, and no page is fetched after the match.   *)
C4_StopsAtFirstMatch ==
    /\ [](stop = "found" =>
            /\ pc \in {"bsr", "row"}
            /\ page = Len(seen)
            /\ fetched = UpTo(page)
            /\ Target \in Range(seen[page])
            /\ \A q \in 1..(page - 1) : Target \notin Range(seen[q]))
    /\ [][stop = "found" => Len(fetched') <= Len(fetched)]_vars

C4_Witness ==
    /\ prog \in {"akarsh", "daily"} /\ stop = "found"
    /\ page = 1 /\ fetched = <<1>> /\ MaxPages > 1

(* C5: the position reported for a match is the 1-based index of the       *)
(* target within the matching page's own list, and the absolute position   *)
(* minus it is the number of identifiers of the earlier pages.             *)
C5_PositionIsPerPage ==
    (stop = "found" /\ prog \in {"akarsh", "daily"}) =>
        /\ RankPos = FirstIndex(seen[page], Target)
        /\ 1 <= RankPos /\ RankPos <= Len(seen[page])
        /\ RankAbs - RankPos = PriorCount

C7_FailedPageIsSkipped ==
    (prog \in {"akarsh", "daily", "tracker"} /\ stop /= "none") =>
        \A i \in failedAt : i < MaxPages => \E k \in 1..Len(fetched) : fetched[k] = i + 1

(* C8: a fetch whose every attempt failed returns no status, no content    *)
(* and is not reported as blocked (get_html, fetch_with_backoff).          *)
C8_ExhaustionIsCouldNotFetch ==
    (prog \in {"akarsh", "backoff"} /\ lastFetch.failed) =>
        lastFetch.status = None /\ lastFetch.content = None /\ ~lastFetch.blocked

(* C9: a network-level failure never leaves the fetch as an exception and  *)
(* never aborts the run (get_html, fetch_with_backoff, self_scrap.py       *)
(* get_keyword_rank).                                                      *)
C9_NetworkFailureNeverPropagates ==
    prog \in {"akarsh", "backoff", "self_scrap"} => raised /= "network"

\* the (item, query) pairs an input mapping asks for, in visiting order: an
\* entry counts when it names an item and lists its values; blank names are none
RECURSIVE RequestedFrom(_, _, _, _)
RequestedFrom(c, byItem, e, v) ==
    IF e > Len(c) THEN <<>>
    ELSE IF "vals" \notin DOMAIN c[e] \/ strip(c[e].key) = "" THEN RequestedFrom(c, byItem, e + 1, 1)
    ELSE IF v > Len(c[e].vals) THEN RequestedFrom(c, byItem, e + 1, 1)
    ELSE IF strip(c[e].vals[v]) = "" THEN RequestedFrom(c, byItem, e, v + 1)
    ELSE <<IF byItem THEN [asin |-> strip(c[e].key), keyword |-> strip(c[e].vals[v])]
           ELSE [asin |-> strip(c[e].vals[v]), keyword |-> strip(c[e].key)]>>
         \o RequestedFrom(c, byItem, e, v + 1)

RequestedPairs == RequestedFrom(cfg, prog \in {"akarsh", "self_scrap"}, 1, 1)

RowPairs(rs) == [i \in 1..Len(rs) |-> [asin |-> rs[i].asin, keyword |-> rs[i].keyword]]

\* the row carries the not-found / null markers
Unresolved(row) ==
    IF prog = "akarsh" THEN row.page_val = [s |-> "Not found"] /\ row.pos_val = [s |-> "Not found"]
    ELSE row.rank_page = None /\ row.rank_position = None

AllUnitsReported ==
    /\ prog \in {"daily", "backoff"}
    /\ pc = "done" /\ IsSome(report) /\ Val(report) = rows
    /\ IF prog = "backoff"
       THEN {rows[i].asin : i \in 1..Len(rows)} = UniqueAsins(cfg)
       ELSE RowPairs(rows) = RequestedPairs

Malformed(c) ==
    \E e \in 1..Len(c) : "vals" \notin DOMAIN c[e] \/ strip(c[e].key) = ""

(* C12: a malformed input mapping is fatal at startup: the run of           *)
(* self_scrap_akarsh.py stops with a configuration error before any fetch, *)
(* and never goes on with the well-formed entries only.                    *)
C12_ConfigErrorIsFatal ==
    (prog = "akarsh" /\ Malformed(cfg)) => (pc = "start" \/ raised = "config")

(* C13: every network operation carries an explicit timeout: no request of  *)
(* self_scrap_akarsh.py or self_scrap.py ever blocks on a connection that  *)
(* never answers (a silent connection ends the attempt as a failed one).   *)
C13_NoRequestBlocksForever ==
    prog \in {"akarsh", "self_scrap"} => pc /= "hung"

\* the text of a structured detail container, and a free-text or raw-markup match
StructuralBsr ==
    {Some("li: Best Sellers Rank #1"), Some("tr: Best Sellers Rank #1"),
     Some("box: Best Sellers Rank #1")}
ScannedBsr == {Some("node: Best Sellers Rank #1"), Some("#1 in Category")}

\* the three ways a script reports that the page has no rank signal
AbsentBsr == {None, Some("BSR not available")}

\* the rank signal each extractor returned for doc
BsrResults == {out.akarsh.bsr, out.selfscrap.bsr, out.daily.bsr}

(* C14: rank-signal extraction falls back from the structured containers to *)
(* the free-text scan: on a page with the marker phrase in a detail        *)
(* container every extractor (parse_bsr_from_soup, self_scrap.py get_bsr,  *)
(* daily_tracker.py scrape_asin) returns the structural text; with no      *)
(* detail container but the phrase in free text each returns the free-text *)
(* match; with the phrase nowhere each leaves the field absent.            *)
C14_BsrFallbackOrder ==
    (prog = "fields" /\ pc \in {"f_review", "done"}) =>
        /\ doc.bsr \in {Some("li"), Some("tr")} => BsrResults \subseteq StructuralBsr
        /\ doc.bsr = Some("text") => BsrResults \subseteq ScannedBsr
        /\ doc.bsr = Some("none") => BsrResults \subseteq AbsentBsr

\* the strategies of a field, in order, that yield non-empty text on the page
Yielding(markup) == {i \in DOMAIN markup : markup[i] = "text"}

\* the value the strategy order prescribes: the text of the first yielding strategy
FirstYield(markup) ==
    IF Yielding(markup) = {} THEN None
    ELSE Some(StrategyText(CHOOSE i \in Yielding(markup) :
                               \A j \in Yielding(markup) : i <= j))

\* review_bsr_tracker.py writes "N/A" (or the empty text found) for an absent field
ReviewValue(v) == IF v \in {Some("N/A"), Some("")} THEN None ELSE v

(* C15: for price, rating and review count the value returned is the text  *)
(* of the first strategy, in the field's order, that yields non-empty      *)
(* text; a later strategy is used when all earlier ones yield nothing, and *)
(* the field is absent exactly when no strategy yields.  Checked for       *)
(* parse_pdp_metrics, daily_tracker.py scrape_asin (first_text) and        *)
(* review_bsr_tracker.py extract_data.                                     *)
C15_FirstYieldingStrategyWins ==
    (prog = "fields" /\ pc = "done") =>
        /\ out.akarsh.price = FirstYield(doc.price)
        /\ out.akarsh.rating = FirstYield(doc.rating)
        /\ out.akarsh.review_count = FirstYield(doc.reviews)
        /\ out.daily.price = FirstYield(SubSeq(doc.price, 1, 4))
        /\ out.daily.rating = FirstYield(doc.rating)
        /\ out.daily.review_count = FirstYield(doc.reviews)
        /\ ReviewValue(out.review.star_rating) = FirstYield(doc.rating)
        /\ ReviewValue(out.review.review_count) = FirstYield(SubSeq(doc.reviews, 1, 1))

\* the page d without the markup of field f
Blanked(d, f) ==
    IF f = "price" THEN [d EXCEPT !.price = [i \in 1..5 |-> "absent"]]
    ELSE IF f = "rating" THEN [d EXCEPT !.rating = [i \in 1..2 |-> "absent"]]
    ELSE IF f = "review_count" THEN [d EXCEPT !.reviews = [i \in 1..2 |-> "absent"]]
    ELSE [d EXCEPT !.bsr = Some("none")]

\* the keys of the dict parse_pdp_metrics and scrape_asin return
MetricFields == {"price", "rating", "review_count", "bsr"}

\* result r is the result full of the page with field f's markup removed:
\* f absent, every other field as in full
OnlyLoses(r, full, f) ==
    /\ r /= [raised |-> TRUE]
    /\ r[f] = None
    /\ \A g \in MetricFields \ {f} : r[g] = full[g]

C17_NormalizeTokenIdempotent ==
    (prog = "phrases" /\ pc = "done" /\ doc.kind = "token") => out.twice = out.once

C17_Witness ==
    /\ prog = "phrases" /\ pc = "done" /\ doc.kind = "token"
    /\ doc.text = <<"\t", "B", RSQUO, "a">>
    /\ out.once = <<"b", " ", "a">> /\ out.twice = out.once

\* the phrases an extraction returned for doc
PhrasesOut == IF doc.kind = "text" THEN out.phrases ELSE out.keywords

\* lowercase, tokens joined by single spaces without leading or trailing space,
\* one to three tokens, at least one alphabetic character
WellFormedPhrase(p) ==
    /\ p /= <<>>
    /\ str_lower(p) = p
    /\ \A i \in 1..Len(p) : p[i] \in Whitespace => p[i] = " "
    /\ p[1] /= " " /\ p[Len(p)] /= " "
    /\ \A i \in 1..(Len(p) - 1) : ~(p[i] = " " /\ p[i + 1] = " ")
    /\ Cardinality({i \in 1..Len(p) : p[i] = " "}) <= 2
    /\ \E i \in 1..Len(p) : p[i] \in Alpha

(* C18: every phrase that extract_phrases_from_text (and with it            *)
(* fetch_clean_keywords_from_html) returns, for any text, is lowercase,     *)
(* whitespace-normalized, made of one to three tokens and contains at      *)
(* least one alphabetic character.                                         *)
C18_PhrasesWellFormed ==
    (prog = "phrases" /\ pc = "done" /\ doc.kind \in {"text", "item"}) =>
        \A i \in 1..Len(PhrasesOut) : WellFormedPhrase(PhrasesOut[i])

C18_Witness ==
    /\ prog = "phrases" /\ pc = "done" /\ doc = TextDoc(LongTitle, 15)
    /\ Len(out.phrases) >= 3
    /\ \E i \in 1..Len(out.phrases) :
          Cardinality({j \in 1..Len(out.phrases[i]) : out.phrases[i][j] = " "}) = 2

NoDuplicates(s) == \A i, j \in 1..Len(s) : s[i] = s[j] => i = j

\* the number of tokens of a phrase
TokenCount(p) == Cardinality({i \in 1..Len(p) : p[i] = " "}) + 1

\* when phrase p is first seen in a text with these words: all 3-grams come before
\* all 2-grams and these before all 1-grams, each kind in the order of the words
FirstSeen(words, p) ==
    LET n == TokenCount(p)
        at == {i \in 1..(Len(words) - n + 1) :
                  str_join(SubSeq(words, i, i + n - 1), <<" ">>) = p}
    IN  (3 - n) * (Len(words) + 1)
          + (IF at = {} THEN 0 ELSE CHOOSE i \in at : \A j \in at : i <= j)

\* "wireless mouse"
WirelessMouse ==
    <<"w", "i", "r", "e", "l", "e", "s", "s", " ", "m", "o", "u", "s", "e">>

(* C19: the phrase list of one text, and of one item over all its source   *)
(* texts, contains no phrase twice and keeps the phrases in first-seen     *)
(* order (for an item: the order of the sources, title first); for the     *)
(* text "Wireless Mouse, Wireless Mouse for Laptop" the list contains      *)
(* "wireless mouse" exactly once and no standalone "for".                  *)
C19_NoDuplicatePhraseFirstSeenOrder ==
    /\ (prog = "phrases" /\ pc = "done" /\ doc.kind = "text") =>
          LET words == text_words(doc.text)
              seenAt == [i \in 1..Len(out.phrases) |-> FirstSeen(words, out.phrases[i])]
          IN  /\ NoDuplicates(out.phrases)
              /\ \A i \in 1..Len(out.phrases) : seenAt[i] > 0
              /\ \A i \in 1..(Len(out.phrases) - 1) : seenAt[i] < seenAt[i + 1]
    /\ (prog = "phrases" /\ pc = "done" /\ doc.kind = "item") =>
          LET collected == collected_phrases(doc)
              seenAt == [i \in 1..Len(out.keywords) |->
                            FirstIndex(collected, out.keywords[i])]
          IN  /\ NoDuplicates(out.keywords)
              /\ \A i \in 1..Len(out.keywords) : seenAt[i] > 0
              /\ \A i \in 1..(Len(out.keywords) - 1) : seenAt[i] < seenAt[i + 1]
    /\ (prog = "phrases" /\ pc = "done" /\ doc.kind \in {"text", "item"}
          /\ (IF doc.kind = "text" THEN doc.text ELSE doc.title) = DedupExample) =>
          /\ Cardinality({i \in 1..Len(PhrasesOut) : PhrasesOut[i] = WirelessMouse}) = 1
          /\ <<"f", "o", "r">> \notin Range(PhrasesOut)

C19_Witness ==
    /\ prog = "phrases" /\ pc = "done"
    /\ doc = ItemDoc(DedupExample, <<>>, <<>>, <<DedupExample>>, <<>>)
    /\ Len(collected_phrases(doc)) = 14
    /\ Len(out.keywords) = 7 /\ out.keywords[3] = WirelessMouse

\* the first cap elements of s
FirstN(s, cap) == SubSeq(s, 1, IF Len(s) < cap THEN Len(s) ELSE cap)

\* what extract_phrases_from_text generates from a text when no cap stops it
UncappedPhrases(text) == extract_phrases_from_text(text, 3 * Len(text) + 1)

\* what the final cleaning of an item keeps when no cap stops it
UncappedKeywords(soup) ==
    final_clean(collected_phrases(soup), 1, <<>>, Len(collected_phrases(soup)) + 1)

(* C20: the number of phrases returned never exceeds the cap (max_phrases  *)
(* for one source text, MAX_KWS_PER_ASIN for the final list of an item),   *)
(* and the list returned is exactly the first cap-many phrases, in order,  *)
(* of what the same generation produces when no cap stops it.              *)
C20_StopsAtMaximumPhraseCount ==
    /\ (prog = "phrases" /\ pc = "done" /\ doc.kind = "text") =>
          /\ Len(out.phrases) <= doc.max_phrases
          /\ out.phrases = FirstN(UncappedPhrases(doc.text), doc.max_phrases)
    /\ (prog = "phrases" /\ pc = "done" /\ doc.kind = "item") =>
          /\ Len(out.keywords) <= MAX_KWS_PER_ASIN
          /\ out.keywords = FirstN(UncappedKeywords(doc), MAX_KWS_PER_ASIN)

C20_Witness ==
    /\ prog = "phrases" /\ pc = "done" /\ doc.kind = "item"
    /\ doc.title = LongTitle
    /\ Len(out.keywords) = MAX_KWS_PER_ASIN
    /\ Len(UncappedKeywords(doc)) = 54
    /\ Len(UncappedPhrases(doc.title)) = 18

(* C21: the debug file of a response never holds more than its first       *)
(* 100,000 characters: its length is min(len(body), 100000) (check.py      *)
(* fetch_one_asin, extract_keywords_akarsh.py fetch_with_backoff).         *)
C21_DebugFileAtMost100k ==
    IsSome(artifact) =>
        Val(artifact).saved = (IF Val(artifact).body < 100000 THEN Val(artifact).body
                               ELSE 100000)

\* the items some query term of the input lists
RequestedItems == {RequestedPairs[i].asin : i \in 1..Len(RequestedPairs)}

(* C22: within one run the detail page of a unique item is fetched exactly *)
(* once, however many query terms list the item: never a second time, and  *)
(* once for every listed item when the report is written (check.py main,   *)
(* extract_keywords_akarsh.py main, daily_tracker.py main,                 *)
(* self_scrap_akarsh.py __main__).                                         *)
C22_DetailPageOncePerItem ==
    prog \in {"akarsh", "daily", "check", "backoff"} =>
        /\ \A a \in Asins : detail[a] <= 1
        /\ IsSome(report) => \A a \in RequestedItems : detail[a] = 1

\* a fetch call with a retry budget is in progress; tries is the number of
\* requests it has issued so far
InFetchCall == (prog = "akarsh" /\ pc = "get_html") \/ (prog = "backoff" /\ pc = "fetch")
AttemptBudget == IF prog = "akarsh" THEN max_retries ELSE MAX_RETRIES

(* C23: one fetch call issues at most max_attempts requests: the number of *)
(* requests issued never exceeds the budget, every step that stays in the  *)
(* call is one request within the budget (so the call ends after at most   *)
(* max_attempts steps), and the step that accepts a response leaves the    *)
(* call (get_html, fetch_with_backoff).                                    *)
C23_AtMostMaxAttemptsRequests ==
    /\ [](InFetchCall => tries <= AttemptBudget)
    /\ [][InFetchCall /\ InFetchCall' => tries < AttemptBudget /\ tries' = tries + 1]_vars
    /\ [][accepted' /= accepted => ~InFetchCall']_vars

\* every attempt of a get_html call has been used
C23_Witness == prog = "akarsh" /\ pc = "get_html" /\ tries = max_retries /\ ret = "rank_got"

(* C24: a backoff sleep is taken after a rejected attempt only when an     *)
(* attempt remains: whenever the fetch call has just slept, it is still in *)
(* progress with a request left to issue, so every sleep is followed by    *)
(* another request of the same call and none follows the last attempt      *)
(* (get_html, fetch_with_backoff).                                         *)
C24_SleepOnlyBeforeRetry ==
    IsSome(slept) => InFetchCall /\ tries < AttemptBudget

\* backoff_base * growth_factor ^ attempt_index for base 2 s and factor 2, in
\* tenths of a second; the attempt that failed is number tries, its index tries - 1
DeterministicDelay(failed) == 10 * 2 * 2 ^ (failed - 1)

(* C25: the delay before a retry is the deterministic part                 *)
(* backoff_base * growth_factor^attempt_index (2, 4, 8 s) with jitter      *)
(* added on top: every delay a fetch call sleeps after its n-th failed     *)
(* attempt is at least the deterministic part for n, hence strictly        *)
(* greater than the deterministic part of the delay before it              *)
(* (fetch_with_backoff, get_html).                                         *)
C25_DelayGrowsExponentially ==
    IsSome(slept) =>
        /\ Val(slept).lo >= DeterministicDelay(tries)
        /\ Val(slept).hi >= Val(slept).lo
        /\ tries > 1 => Val(slept).lo > DeterministicDelay(tries - 1)

\* the challenge verdict of a predicate on the text of doc has been computed
Judged == prog = "pages" /\ doc.kind = "text" /\ pc \in {"p_sniff", "done"}

\* the text holds the word in some case
Mentions(text, word) == \E p \in text.phrases : word \in substrings(lower_phrase(p))

\* markers of the predicate in out other than the bare word "captcha"
OtherMarkers ==
    IF out.by = "is_captcha"
    THEN {"validatecaptcha", "enter the characters you see below",
          "api-services-support@amazon.com"}
    ELSE BOT_MARKERS

(* C26: the challenge predicate is case-insensitive and takes the bare     *)
(* word "captcha" for a challenge only together with the site's name: a    *)
(* text is a challenge exactly when one of the other markers occurs in it  *)
(* in some case, or both "captcha" and "amazon" do (is_captcha, sniff_bot  *)
(* of extract_keywords_akarsh.py and check.py).                            *)
C26_CaptchaNeedsSiteName ==
    Judged =>
        (out.challenge <=>
            \/ \E m \in OtherMarkers : Mentions(doc, m)
            \/ Mentions(doc, "captcha") /\ Mentions(doc, "amazon"))

\* a rank resolution of a script that pages through search results
Resolving == prog \in {"akarsh", "daily"} /\ Len(fetched) > 0

(* C27: the pages of one rank resolution are fetched in strictly           *)
(* increasing index order starting at 1: the i-th page requested is page   *)
(* i, so no index is requested twice, and page i + 1 is requested only     *)
(* when the processing of page i has ended (get_keyword_rank,              *)
(* get_search_rank).                                                       *)
C27_PagesFetchedInOrder ==
    Resolving =>
        /\ \A i \in 1..Len(fetched) : fetched[i] = i
        /\ Len(seen) \in {Len(fetched) - 1, Len(fetched)}
        /\ Len(seen) < Len(fetched) =>
               prog = "akarsh" /\ pc \in {"get_html", "rank_got"} /\ ret = "rank_got"

\* page 2 is being requested after page 1 was scanned without a match
C27_Witness ==
    /\ prog = "akarsh" /\ pc = "get_html"
    /\ fetched = <<1, 2>> /\ Len(seen) = 1 /\ Len(seen[1]) = MaxTiles

\* no page of the resolution is being scanned: the next page has not been
\* requested yet, or (get_keyword_rank) its fetch has not returned or has
\* just returned
BetweenScans ==
    \/ prog \in {"akarsh", "daily"} /\ pc = "rank_page"
    \/ prog = "akarsh" /\ pc \in {"get_html", "rank_got"} /\ ret = "rank_got"

\* identifiers extracted from the pages completed so far
ExtractedSoFar == SumSeq([i \in 1..Len(seen) |-> Len(seen[i])])

(* C28: between two page fetches of a rank resolution the absolute         *)
(* position counter equals the number of identifiers extracted from the    *)
(* pages completed so far; the page being fetched has contributed nothing  *)
(* (get_keyword_rank, get_search_rank).                                    *)
C28_CounterIsExtractedSoFar ==
    BetweenScans => abs_index = ExtractedSoFar

\* two pages of different sizes have been completed without a match
C28_Witness ==
    /\ prog = "akarsh" /\ pc = "rank_page"
    /\ Len(seen) = 2 /\ Len(seen[1]) = 2 /\ Len(seen[2]) = 1
    /\ abs_index = 3

\* this step scans a page that was fetched and yields no identifier
ScansEmptyPage ==
    /\ prog \in {"akarsh", "daily"}
    /\ seen' = Append(seen, <<>>)
    /\ failedAt' = failedAt

(* C29: a fetched page that yields zero identifiers adds zero to the       *)
(* absolute-position counter and the resolution goes on to the next page   *)
(* unless the page carries a pagination-exhaustion signal; and a           *)
(* resolution that ends without a match before max_pages pages were        *)
(* fetched has stopped on such a signal (get_search_rank,                  *)
(* get_keyword_rank).                                                      *)
C29_EmptyPageContinues ==
    /\ [][ScansEmptyPage =>
            /\ abs_index' = abs_index
            /\ \/ stop' = "pagination"
               \/ stop' = "none" /\ page' = page + 1 /\ pc' = "rank_page"]_vars
    /\ [](prog \in {"akarsh", "daily"} /\ stop \in NotFoundStops /\ Len(fetched) < MaxPages
            => stop = "pagination")

\* the identifier list of the page in doc has been produced
Parsed == prog = "pages" /\ doc.kind = "page" /\ pc = "done"

\* structural attribute scan on the result containers of a page
StructuralScan(body) ==
    IF sel_component(body) /= <<>> THEN sel_component(body) ELSE sel_slot(body)

\* the three tiers in the stated order
TieredIdentifiers(body) ==
    IF StructuralScan(body) /= <<>> THEN StructuralScan(body)
    ELSE IF re_data_asin(body) /= <<>> THEN DedupFirst(re_data_asin(body))
    ELSE DedupFirst(re_json_asin(body))

(* C30: the identifier list of a search page comes from the first tier     *)
(* that yields a non-empty list, in the order structural attribute scan on *)
(* result containers, regex scan for the identifier attribute, regex scan  *)
(* for the embedded-JSON field; the embedded-JSON tier is used only when   *)
(* both earlier tiers yield nothing (parse_search_asins_html,              *)
(* parse_search_asins_regex, get_keyword_rank).                            *)
C30_TierOrder ==
    Parsed =>
        /\ out.tiles = TieredIdentifiers(doc.body)
        /\ out.json_tier =>
               StructuralScan(doc.body) = <<>> /\ re_data_asin(doc.body) = <<>>

\* the tokens of a phrase: its maximal runs without a space
TokensOf(p) ==
    LET bounds == {b \in (1..Len(p)) \X (1..Len(p)) :
                      /\ b[1] <= b[2]
                      /\ \A k \in b[1]..b[2] : p[k] /= " "
                      /\ (b[1] = 1 \/ p[b[1] - 1] = " ")
                      /\ (b[2] = Len(p) \/ p[b[2] + 1] = " ")}
    IN  {SubSeq(p, b[1], b[2]) : b \in bounds}

(* C31: no phrase returned by extract_phrases_from_text or by              *)
(* fetch_clean_keywords_from_html has a member of NOISE_TOKENS or of        *)
(* STOPWORDS among its tokens, whatever its number of tokens (1, 2 or 3):  *)
(* a window with such a token is rejected as a whole (is_noise_token,      *)
(* extract_phrases_from_text).                                             *)
C31_NoNoiseOrStopwordToken ==
    (prog = "phrases" /\ pc = "done" /\ doc.kind \in {"text", "item"}) =>
        \A i \in 1..Len(PhrasesOut) :
            TokensOf(PhrasesOut[i]) \cap (NOISE_TOKENS \cup STOPWORDS) = {}

\* "Tea-Bag 250 ml x 2 of 3x4 1234567" holds the noise token "ml" and the
\* stopword "of"; some phrase is returned for it
C31_Witness ==
    /\ prog = "phrases" /\ pc = "done" /\ doc = TextDoc(NoiseExample, 40)
    /\ <<"m", "l">> \in Range(text_words(doc.text))
    /\ <<"o", "f">> \in Range(text_words(doc.text))
    /\ out.phrases /= <<>>

(* C32: in the phrase list generated from one source text the 3-token       *)
(* phrases precede the 2-token phrases and these precede the 1-token       *)
(* phrases; and when the cap cuts the list, no phrase that was dropped has  *)
(* more tokens than a phrase that was kept (extract_keywords.py, lines     *)
(* 104-123)                                                                 *)
C32_LongerPhrasesFirst ==
    (prog = "phrases" /\ pc = "done" /\ doc.kind = "text") =>
        LET kept == out.phrases
            size == [i \in 1..Len(kept) |-> TokenCount(kept[i])]
            uncapped == UncappedPhrases(doc.text)
            dropped == {uncapped[i] : i \in 1..Len(uncapped)} \ Range(kept)
        IN  /\ \A i \in 1..Len(kept) : size[i] \in 1..3
            /\ \A i \in 1..(Len(kept) - 1) : size[i] >= size[i + 1]
            /\ \A d \in dropped : \A i \in 1..Len(kept) : TokenCount(d) <= size[i]

C32_Witness ==
    /\ prog = "phrases" /\ pc = "done" /\ doc = TextDoc(LongTitle, 15)
    /\ Len(out.phrases) = 15 /\ Len(UncappedPhrases(doc.text)) = 18
    /\ TokenCount(out.phrases[5]) = 3 /\ TokenCount(out.phrases[6]) = 2
    /\ TokenCount(out.phrases[11]) = 2 /\ TokenCount(out.phrases[12]) = 1

\* the phrases the title of an item gives (line 136)
TitlePhrases(soup) == Range(extract_phrases_from_text(soup.title, 15))

\* phrase p passes the final filters of lines 190-195
PassesFinalFilters(p) ==
    /\ \A tok \in REMNANTS : ~str_contains(p, tok)
    /\ ~str_contains(p, <<"a", "m", "a", "z", "o", "n">>)
    /\ Len(p) >= 3

(* C33: in the final phrase list of an item every phrase derived from the   *)
(* title precedes every phrase that occurs only in the later sources, and  *)
(* a title phrase that passes the final filters is never missing from a    *)
(* list that holds a phrase of a later source (extract_keywords.py, lines  *)
(* 127-202)                                                                 *)
C33_TitlePhrasesFirst ==
    (prog = "phrases" /\ pc = "done" /\ doc.kind = "item") =>
        LET fromTitle == TitlePhrases(doc)
            kept == out.keywords
            later == {i \in 1..Len(kept) : kept[i] \notin fromTitle}
        IN  /\ \A i \in 1..Len(kept) :
                  kept[i] \in fromTitle => \A j \in later : i < j
            /\ later /= {} =>
                  \A t \in fromTitle : PassesFinalFilters(t) => t \in Range(kept)

C33_Witness ==
    /\ prog = "phrases" /\ pc = "done" /\ doc.kind = "item"
    /\ doc.title = LongTitle /\ doc.desc_texts = <<LongDescription>>
    /\ Cardinality(TitlePhrases(doc)) = 15
    /\ Len(out.keywords) = MAX_KWS_PER_ASIN
    /\ out.keywords[15] \in TitlePhrases(doc)
    /\ out.keywords[16] \notin TitlePhrases(doc)
    /\ Len(UncappedKeywords(doc)) > MAX_KWS_PER_ASIN

\* "pack of", "see more", "item weight", "number of"
BoilerplateFragments ==
    {<<"p", "a", "c", "k", " ", "o", "f">>,
     <<"s", "e", "e", " ", "m", "o", "r", "e">>,
     <<"i", "t", "e", "m", " ", "w", "e", "i", "g", "h", "t">>,
     <<"n", "u", "m", "b", "e", "r", " ", "o", "f">>}

\* the brand name of the marketplace
BrandName == <<"a", "m", "a", "z", "o", "n">>

(* C34: no phrase of the final list of an item is shorter than three        *)
(* characters, and none contains "pack of", "see more", "item weight",     *)
(* "number of" or the brand name of the marketplace as a substring         *)
(* (extract_keywords.py, lines 185-202)                                     *)
C34_NoShortOrBoilerplatePhrase ==
    (prog = "phrases" /\ pc = "done" /\ doc.kind = "item") =>
        \A i \in 1..Len(out.keywords) :
            /\ Len(out.keywords[i]) >= 3
            /\ \A f \in BoilerplateFragments : ~str_contains(out.keywords[i], f)
            /\ ~str_contains(out.keywords[i], BrandName)

C34_Witness ==
    /\ prog = "phrases" /\ pc = "done" /\ doc.kind = "item"
    /\ doc.title = Jetpackoffer /\ doc.bullets = <<BigJetpackOffer>>
    /\ \E p \in Range(collected_phrases(doc)) :
          str_contains(p, <<"p", "a", "c", "k", " ", "o", "f">>)
    /\ \E p \in Range(collected_phrases(doc)) : str_contains(p, BrandName)
    /\ out.keywords /= <<>>
    /\ Len(out.keywords) < Len(collected_phrases(doc))

\* the next step of the script issues a request
AboutToRequest ==
    \/ prog = "akarsh" /\ pc = "get_html" /\ try_in_range(tries)
    \/ prog = "akarsh" /\ (pc = "boot" \/ (pc = "post_json" /\ tries < post_max_retries + 1))
    \/ prog = "daily" /\ pc \in {"start", "pdp"} /\ UniqueAsins(cfg) \ DOMAIN metrics /= {}
    \/ prog = "daily" /\ pc = "rank_page" /\ page_in_range(page)
    \/ prog = "scraper" /\ pc \in {"start", "loop"} /\ vi <= Len(cfg[ei].vals)

(* C35: between two consecutive fetches of the pipeline a delay step        *)
(* occurs, after a fetch that succeeded and after one that failed alike:   *)
(* whenever a request is about to be issued, a sleep has been taken since  *)
(* the request before it (get_keyword_rank, get_search_rank,               *)
(* polite_fetch_and_parse)                                                 *)
C35_DelayBetweenFetches == AboutToRequest => paused

\* a cell of the report of self_scrap_akarsh.py shows 'Not found'
ShowsNotFound(cell) == "s" \in DOMAIN cell

(* C36: the result of a rank resolution is all-or-nothing: either every     *)
(* component is set, with 1 <= page <= max_pages and position >= 1, or it  *)
(* is the not-found value with no component set; accordingly a row of the  *)
(* report shows 'Not found' (an empty cell in daily_tracker.py) in all     *)
(* rank columns or in none (get_keyword_rank and __main__ of               *)
(* self_scrap_akarsh.py, get_search_rank and main of daily_tracker.py)     *)
C36_RankAllOrNothing ==
    /\ prog = "akarsh" =>
          /\ rank.page = None <=> rank.position = None
          /\ IsSome(rank.page) =>
                Val(rank.page) \in 1..MaxPages /\ Val(rank.position) >= 1
          /\ \A i \in 1..Len(rows) :
                ShowsNotFound(rows[i].page_val) <=> ShowsNotFound(rows[i].pos_val)
    /\ prog = "daily" =>
          /\ IsSome(rank) =>
                /\ DOMAIN Val(rank) = {"page", "position", "absolute"}
                /\ Val(rank).page \in 1..MaxPages
                /\ Val(rank).position >= 1 /\ Val(rank).absolute >= 1
          /\ \A i \in 1..Len(rows) :
                /\ IsSome(rows[i].rank_page) <=> IsSome(rows[i].rank_position)
                /\ IsSome(rows[i].rank_page) <=> IsSome(rows[i].rank_absolute)

\* a report with a row of a resolution that found the item on the first tile
\* and a row of one that did not find it
C36_Witness ==
    /\ prog = "akarsh" /\ Len(rows) = 2
    /\ rows[1].page_val = [n |-> 1] /\ rows[1].pos_val = [n |-> 1]
    /\ ShowsNotFound(rows[2].page_val) /\ ShowsNotFound(rows[2].pos_val)

\* this step of a resolution skips a page whose fetch failed
SkipsFailedPage ==
    /\ prog \in {"akarsh", "daily"}
    /\ failedAt' /= failedAt /\ failedAt \subseteq failedAt'
    /\ stop' = "none"

\* the position of the match on the page it was found on
LocalPosition == FirstIndex(seen[Len(seen)], Target)

(* C37: a page whose fetch failed and was skipped adds nothing to the       *)
(* absolute-position counter: the absolute position of a match is the      *)
(* number of identifiers extracted from the earlier pages that were        *)
(* fetched plus the position on the page of the match, hence never less    *)
(* than that position (get_keyword_rank, get_search_rank)                  *)
C37_FailedPageCountsZero ==
    /\ [][SkipsFailedPage => abs_index' = abs_index]_vars
    /\ [](prog \in {"akarsh", "daily"} /\ stop = "found" =>
            /\ \A i \in failedAt : seen[i] = <<>>
            /\ RankAbs = PriorCount + LocalPosition
            /\ RankAbs >= LocalPosition /\ LocalPosition >= 1)

\* the item is the second tile of page 2 after the fetch of page 1 failed
C37_Witness ==
    /\ prog = "daily" /\ stop = "found" /\ failedAt = {1}
    /\ fetched = <<1, 2>> /\ LocalPosition = 2 /\ RankAbs = 2

\* list s holds each element of src once, in the order of the first occurrences
FirstOccurrences(s, src) ==
    /\ Range(s) = Range(src)
    /\ NoDuplicates(s)
    /\ \A i \in 1..(Len(s) - 1) : FirstIndex(src, s[i]) < FirstIndex(src, s[i + 1])

(* C38: the identifier list of a regex tier (attribute regex,               *)
(* embedded-JSON regex) holds each identifier once, in the order of the    *)
(* first occurrences, while a structural tier keeps every occurrence in    *)
(* document order; and the position reported for the item is that of its   *)
(* first occurrence in the list of the page, counted on from the           *)
(* identifiers of the pages before (parse_search_asins_html,               *)
(* parse_search_asins_regex, get_keyword_rank)                             *)
C38_RegexTiersDeduplicate ==
    /\ Parsed =>
          IF StructuralScan(doc.body) /= <<>>
          THEN out.tiles = doc.body.ids
          ELSE \E src \in {re_data_asin(doc.body), re_json_asin(doc.body)} :
                  FirstOccurrences(out.tiles, src)
    /\ (prog = "akarsh" /\ stop = "found") =>
          LET tiles == seen[Len(seen)]
              k == Val(rank.position) - PriorCount
          IN  /\ k \in 1..Len(tiles)
              /\ tiles[k] = entries[ei].key
              /\ \A j \in 1..(k - 1) : tiles[j] /= entries[ei].key

\* an identifier that occurs twice in the markup is listed once by the attribute
\* regex
C38_Witness ==
    /\ Parsed /\ doc.body.layout = "attr" /\ doc.body.json = <<>>
    /\ doc.body.ids = <<"B01", "B01">> /\ out.tiles = <<"B01">>

\* the run has sent its notification email with a file attached
EmailSent == attached /= ""

(* C39: the file attached to the notification email of a run is the report  *)
(* file this run wrote: the file read for the attachment is the file the   *)
(* save step of the run has written, and it is read after that write       *)
(* (self_scrap_akarsh.py and self_scrap.py, save_to_csv, send_email and    *)
(* __main__)                                                               *)
C39_AttachmentIsOwnReport ==
    EmailSent => IsSome(report) /\ attached = written

====
